---- MODULE Spec2Model ----
(***************************************************************************)
(* Model of the relay's control plane (instance manager, src/api.rs) and   *)
(* of the TCP data plane (accept loop, per-connection task, counting       *)
(* streams; realm_core/src/tcp).                                           *)
(*                                                                         *)
(* Spec        : the instance registry under concurrent HTTP handlers,     *)
(*               endpoint starters, endpoint tasks and crash watchers,     *)
(*               without a PersistenceManager.  Every action is one        *)
(*               critical section of the registry mutex (or one step of a  *)
(*               task), so every state is an instant at which the          *)
(*               registry mutex is free.                                   *)
(* SpecPersist : the same registry with a PersistenceManager: every        *)
(*               mutation spawns a save of a snapshot, and the spawned     *)
(*               saves write the file in the order they reach write_lock.  *)
(*               The handlers with a starter run one at a time here.       *)
(* SpecTcp     : one run of a TCP endpoint: accept loop, detached          *)
(*               per-connection tasks, observer callbacks, byte counting.  *)
(* SpecAnswer  : Spec with one handler at a time and the HTTP status and   *)
(*               body status of the last answer recorded in resp.          *)
(* SpecBoot    : the registry restored from the persistence file, the      *)
(*               auto-start loop of start_api_server, then the handlers.   *)
(* SpecUdp     : one UDP association's send_back task (udp/middle.rs).     *)
(* SpecHealth  : FailoverHealth (tcp/health.rs) under mark_ok, mark_fail   *)
(*               and the passing of time; u64 values are three limbs.      *)
(* SpecDial    : one connect_and_relay dial (tcp/middle.rs): candidate     *)
(*               filtering, connect attempts, local-close cancel, retry.   *)
(* SpecProbedDial : SpecDial next to the probe task marking the peers.     *)
(* SpecUpsert  : POST /instances on ids that may already be registered.    *)
(* SpecGroup   : Registry::group_by_addr on one batch (udp/middle.rs).     *)
(* SpecRoute   : GET /instances/{id}/route against a changing health.      *)
(* SpecBuild   : EndpointConf::try_build_balancer and the endpoint run.    *)
(* SpecId      : the id checks of POST /instances on texts given as runs.  *)
(* SpecSanitize: FailoverOpts::sanitize applied repeatedly.                *)
(* SpecRetry   : SpecDial with the retry window tied to the clock, fair.   *)
(* SpecProbe   : the probing task of a TCP endpoint and its stop signal.   *)
(* SpecSess    : udp_sessions over the UDP runs of one instance.           *)
(* SpecMarks   : mark_ok and mark_fail one atomic store at a time.         *)
(***************************************************************************)
EXTENDS Integers, FiniteSets, Sequences, TLC

\* ---- bounds of the model ----
NumIds == 1
MaxOps == 4
MaxInflight == 2
MaxTasks == 2
MaxPending == 2
MaxConns == 2
MaxBytes == 2

Ids == 1..NumIds
TaskIds == 1..MaxTasks
ConnIds == 1..MaxConns

\* EndpointConf values: what NetConf::build derives from them.
Configs == {"tcp", "both"}
use_udp(c) == c = "both"
no_tcp(c) == FALSE

\* Option::None of an AbortHandle / of updated_at.
NoHandle == 0

VARIABLES
    instances,  \* AppState.instances: id -> InstanceData (or Absent)
    ops,        \* the HTTP handlers between their prepare and install sections
    tasks,      \* spawned endpoint tasks with their ready channel and watcher
    ntasks,     \* number of endpoint tasks spawned so far
    saves,      \* snapshots handed to spawned save tasks, not yet written
    file,       \* instances list of the persistence file
    served,     \* number of HTTP responses sent
    epoch,      \* history: lifecycle operations applied to each id
    born,       \* history: the epoch at which the present record of an id was inserted
    lastGen,    \* history: last generation observed for each id
    persistence,\* AppState.persistence is Some(PersistenceManager)
    resp,       \* the last HTTP response (status code, status of the instance it carries)
                \* and whether the requests are handled one at a time
    boot,       \* start_api_server: the auto_start_ids not yet started; empty once serving
    persisted_instances \* start_api_server: what load_instances returned

mgrVars == <<instances, ops, tasks, ntasks, saves, file, served, epoch, born, lastGen,
             persistence, resp, boot, persisted_instances>>

VARIABLES
    lis,        \* the task running run_tcp_inner: "listening", "ended" or "aborted"
    keepalive,  \* socket::keepalive::build(conn_opts) is Some
    conn,       \* per accepted connection: its relay task and the bytes on the wire
    stats,      \* the endpoint's observer, an InstanceStats
    calls       \* history: the observer calls made for each conn_id

tcpVars == <<lis, keepalive, conn, stats, calls>>

VARIABLES
    assoc       \* one UDP association and its return-path task (send_back)

udpVars == <<assoc>>

VARIABLES
    health,     \* the endpoint's FailoverHealth and its clock
    hist        \* history: the last health event of each peer

healthVars == <<health, hist>>

VARIABLES
    dial        \* one per-connection task in the connect loop of connect_and_relay

dialVars == <<dial>>

VARIABLES
    registry,   \* udp::middle::Registry: the packets of one batch and their groups
    route,      \* one GET /instances/{id}/route handler and the response it builds
    build,      \* one EndpointConf, the balancer built from it and the endpoint run with it
    idreq,      \* one POST /instances request, the keys of the registry and the response
    fopts,      \* one FailoverOpts record and the number of times it was sanitized
    probe,      \* the probing task of one TCP endpoint
    sess,       \* the UDP runs of one instance, their return-path tasks and udp_sessions
    marks       \* the mark_ok and mark_fail calls that are between two of their stores

pureVars == <<registry, route, build, idreq, fopts>>

taskVars == <<probe, sess, marks>>

calcVars == <<pureVars, taskVars>>

\* what the manager's actions leave alone, and what the TCP endpoint's actions leave alone
planeVars == <<tcpVars, udpVars, healthVars, dialVars, calcVars>>
offTcpVars == <<mgrVars, udpVars, healthVars, dialVars, calcVars>>

vars == <<mgrVars, tcpVars, udpVars, healthVars, dialVars, calcVars>>

\* InstanceStatus::Failed carries a message: the fields status and msg together are the
\* InstanceStatus; a text is a sequence of characters.
NoMsg == <<>>

\* One text stands for every error message the server produces itself.
ErrMsg == <<"e">>

Absent == [status |-> "absent", msg |-> NoMsg, config |-> "none", auto_start |-> FALSE,
           tcp_abort |-> NoHandle, udp_abort |-> NoHandle, generation |-> 0,
           created_at |-> 0, updated_at |-> 0]

NoTask == [proto |-> "none", id |-> 0, generation |-> 0, owner |-> 0, epoch |-> 0,
           state |-> "unused", ready |-> "none", watcher |-> "none"]

\* ---- helpers ----

\* AbortHandle::abort: cancels a task that has not finished; no effect otherwise.
abort(ts, h) ==
    IF h # NoHandle /\ ts[h].state \in {"starting", "running"}
    THEN [ts EXCEPT ![h].state = "aborted"]
    ELSE ts

abort_both(ts, tcp, udp) == abort(abort(ts, tcp), udp)

\* A snapshot that would take each record's status as it was before the section.
create_instances_snapshot_torn(insts) ==
    [i \in Ids |-> IF insts[i].status = "absent" THEN Absent
                   ELSE IF instances[i].status = "absent"
                   THEN [insts[i] EXCEPT !.tcp_abort = NoHandle, !.udp_abort = NoHandle]
                   ELSE [insts[i] EXCEPT !.tcp_abort = NoHandle, !.udp_abort = NoHandle,
                                         !.status = instances[i].status,
                                         !.msg = instances[i].msg]]

\* PersistenceManager::create_instances_snapshot: the table with the handles dropped.
create_instances_snapshot(insts) ==
    [i \in Ids |-> IF insts[i].status = "absent" THEN Absent
                   ELSE [insts[i] EXCEPT !.tcp_abort = NoHandle, !.udp_abort = NoHandle]]

\* The status text of a PersistedInstance; the literals the code writes and compares
\* with ("Running", "Stopped", "Failed(", ")") are single characters of the text.
format_status(data) ==
    CASE data.status = "Running" -> <<"Running">>
      [] data.status = "Stopped" -> <<"Stopped">>
      [] data.status = "Failed" -> <<"Failed(">> \o data.msg \o <<")">>

\* PersistenceManager::save_instances: the PersistedInstance list of a table.
PersistedInstances(insts) ==
    {[id |-> i, config |-> insts[i].config, status |-> format_status(insts[i]),
      auto_start |-> insts[i].auto_start, created_at |-> insts[i].created_at,
      updated_at |-> insts[i].updated_at] : i \in {j \in Ids : insts[j].status # "absent"}}

\* if let Some(p) = persistence { tokio::spawn(p.save_instances(snapshot)) }: at most
\* MaxPending spawned saves wait for write_lock.
spawn_save(insts) ==
    IF persistence
    THEN /\ Cardinality(saves) < MaxPending
         /\ saves' = saves \cup {create_instances_snapshot(insts)}
    ELSE saves' = saves

\* The handler answers with a status code and, on success, the instance (its status).
\* Responses are recorded only where a specification follows them.
Respond(code, status) ==
    resp' = IF resp.code = "off" THEN resp
            ELSE [resp EXCEPT !.code = code, !.status = status]

ObserveGen(insts) ==
    [i \in Ids |-> IF insts[i].status # "absent" THEN insts[i].generation ELSE lastGen[i]]

Started == served + Cardinality(ops)

\* axum::serve runs once the auto-start loop of start_api_server is over.
Serving == boot = {} /\ \A op \in ops : op.kind # "boot"

\* config.try_build(): the configs of requests are valid ones; a config restored from the
\* persistence file may fail to build.
try_build(c) == c # "invalid"

\* Bounding guard: MaxOps requests in all, MaxInflight of them between their sections
\* (one at a time where the saves or the responses are followed).
CanBegin ==
    /\ Serving
    /\ Started < MaxOps
    /\ Cardinality(ops) < (IF persistence \/ resp.serial THEN 1 ELSE MaxInflight)

\* Utc::now().to_rfc3339(): one instant stands for every time of writing.
now_rfc3339 == 1

\* The state the prepare section of create/update/restart leaves in the record.
Prepared(data, c) ==
    [data EXCEPT !.tcp_abort = NoHandle, !.udp_abort = NoHandle,
                 !.generation = data.generation + 1, !.config = c,
                 !.status = "Stopped", !.msg = NoMsg, !.updated_at = now_rfc3339]

\* The handler's locals when it calls the starter: (id, generation, config) and the
\* epoch of its own prepare section.
Call(kind, i, gen, c) ==
    [kind |-> kind, id |-> i, pc |-> "entry", generation |-> gen, config |-> c,
     tcp_abort |-> NoHandle, udp_abort |-> NoHandle, res |-> "none",
     epoch |-> epoch[i] + 1]

NoConn == [pc |-> "none", to_remote |-> 0, to_client |-> 0]

NoCalls == [open |-> 0, end |-> 0, backend |-> 0, inbound |-> 0, outbound |-> 0]

\* InstanceStats::default(); one backend, so tcp_bytes_by_backend has one BackendBytes.
NoStats ==
    [next_conn_id |-> 0, total_connections |-> 0,
     total_inbound_bytes |-> 0, total_outbound_bytes |-> 0,
     connections |-> [c \in {} |-> 0],
     tcp_bytes_by_backend |-> [inbound_bytes |-> 0, outbound_bytes |-> 0],
     last_success_backend |-> FALSE]

\* No UDP association, no FailoverHealth and no connect loop: the state of these parts
\* in the specifications that are about something else.
NoAssoc == [pc |-> "none", run_guard |-> FALSE, timeout |-> 0, tick |-> 0, deadline |-> 0,
            idle |-> 0, in_sockmap |-> FALSE, closes |-> 0, batches |-> 0]

IdleUdp == assoc = NoAssoc

IdleHealth == health = <<>> /\ hist = <<>>

IdleDial == dial = <<>>

NoRegistry == [pc |-> "none", data |-> <<>>, groups |-> <<>>, beg |-> 0, end |-> 0, probe |-> 0]

NoRoute == [pc |-> "none", addrs |-> 0, i |-> 0, snaps |-> <<>>, backends |-> <<>>,
            preferred_backend |-> <<>>]

NoBuild == [pc |-> "none"]

NoIdReq == [pc |-> "none"]

NoOpts == [calls |-> 0]

NoProbe == [pc |-> "none"]

NoSess == [run |-> 0]

NoMarks == <<>>

IdleTasks == probe = NoProbe /\ sess = NoSess /\ marks = NoMarks

IdleCalc ==
    /\ registry = NoRegistry /\ route = NoRoute /\ build = NoBuild /\ idreq = NoIdReq
    /\ fopts = NoOpts /\ IdleTasks

\* A TCP endpoint that has bound its listener and reached the accept loop.
InitTcp(k) ==
    /\ lis = "listening"
    /\ keepalive = k
    /\ conn = [c \in ConnIds |-> NoConn]
    /\ stats = NoStats
    /\ calls = [c \in ConnIds |-> NoCalls]

InitRegistry(p, r, serial) ==
    /\ instances = [i \in Ids |-> Absent]
    /\ ops = {}
    /\ tasks = [t \in TaskIds |-> NoTask]
    /\ ntasks = 0
    /\ saves = {}
    /\ file = {}
    /\ served = 0
    /\ epoch = [i \in Ids |-> 0]
    /\ born = [i \in Ids |-> 0]
    /\ lastGen = [i \in Ids |-> 0]
    /\ persistence = p
    /\ resp = [code |-> r, status |-> "none", serial |-> serial]
    /\ boot = {}
    /\ persisted_instances = {}

\* The requests are handled one at a time where the responses are followed.
InitWith(p, r) == InitRegistry(p, r, r # "off")

\* The registry without a PersistenceManager (AppState.persistence = None).
Init == InitWith(FALSE, "off") /\ InitTcp(FALSE) /\ IdleUdp /\ IdleHealth /\ IdleDial /\ IdleCalc

\* The registry with a PersistenceManager, the file not yet written.
InitPersist == InitWith(TRUE, "off") /\ InitTcp(FALSE) /\ IdleUdp /\ IdleHealth /\ IdleDial /\ IdleCalc

\* ---- HTTP handlers: the prepare section (first acquisition of the registry lock) ----
\* Requests are addressed to ids the registry holds (POST /instances also to new ids);
\* the 404 answers, which change nothing, are left out.

\* A POST /instances that would insert a fresh record whether or not the id exists.
create_instance_always_inserts(i, c) ==
    /\ CanBegin
    /\ instances' = [instances EXCEPT ![i] =
           [status |-> "Stopped", msg |-> NoMsg, config |-> c, auto_start |-> TRUE,
            tcp_abort |-> NoHandle, udp_abort |-> NoHandle, generation |-> 1,
            created_at |-> now_rfc3339, updated_at |-> 0]]
    /\ ops' = ops \cup {Call("create", i, 1, c)}
    /\ born' = [born EXCEPT ![i] = epoch[i] + 1]
    /\ epoch' = [epoch EXCEPT ![i] = @ + 1]
    /\ lastGen' = ObserveGen(instances')
    /\ UNCHANGED <<tasks, ntasks, saves, file, served, persistence, resp, boot, persisted_instances, planeVars>>

\* POST /instances with a valid config and id: insert, or upsert an existing record.
create_instance(i, c) ==
    /\ CanBegin
    /\ LET data == instances[i] IN
       IF data.status # "absent"
       THEN /\ instances' = [instances EXCEPT ![i] = Prepared(data, c)]
            /\ tasks' = abort_both(tasks, data.tcp_abort, data.udp_abort)
            /\ ops' = ops \cup {Call("upsert", i, data.generation + 1, c)}
            /\ born' = born
       ELSE /\ instances' = [instances EXCEPT ![i] =
                   [status |-> "Stopped", msg |-> NoMsg, config |-> c, auto_start |-> TRUE,
                    tcp_abort |-> NoHandle, udp_abort |-> NoHandle, generation |-> 1,
                    created_at |-> now_rfc3339, updated_at |-> 0]]
            /\ tasks' = tasks
            /\ ops' = ops \cup {Call("create", i, 1, c)}
            /\ born' = [born EXCEPT ![i] = epoch[i] + 1]
    /\ epoch' = [epoch EXCEPT ![i] = @ + 1]
    /\ lastGen' = ObserveGen(instances')
    /\ UNCHANGED <<ntasks, saves, file, served, persistence, resp, boot, persisted_instances, planeVars>>

\* PUT /instances/{id} with a valid config.
update_instance(i, c) ==
    /\ CanBegin
    /\ instances[i].status # "absent"
    /\ LET data == instances[i] IN
       /\ instances' = [instances EXCEPT ![i] = Prepared(data, c)]
       /\ tasks' = abort_both(tasks, data.tcp_abort, data.udp_abort)
       /\ ops' = ops \cup {Call("update", i, data.generation + 1, c)}
    /\ epoch' = [epoch EXCEPT ![i] = @ + 1]
    /\ lastGen' = ObserveGen(instances')
    /\ UNCHANGED <<ntasks, saves, file, served, born, persistence, resp, boot, persisted_instances, planeVars>>

\* POST /instances/{id}/start.  The handles are left alone.
start_instance(i) ==
    /\ CanBegin
    /\ instances[i].status # "absent"
    /\ LET data == instances[i] IN
       IF data.status = "Running" /\ (data.tcp_abort # NoHandle \/ data.udp_abort # NoHandle)
       THEN /\ served' = served + 1
            /\ Respond("409", "none")
            /\ UNCHANGED <<instances, ops, saves, epoch, lastGen>>
       ELSE IF ~try_build(data.config)
       THEN /\ instances' = [instances EXCEPT ![i] =
                   [data EXCEPT !.status = "Failed", !.msg = ErrMsg, !.updated_at = now_rfc3339]]
            /\ spawn_save(instances')
            /\ served' = served + 1
            /\ Respond("400", "none")
            /\ UNCHANGED <<ops, epoch, lastGen>>
       ELSE /\ instances' = [instances EXCEPT ![i] =
                   [data EXCEPT !.generation = data.generation + 1,
                                !.status = "Stopped", !.msg = NoMsg, !.updated_at = now_rfc3339]]
            /\ ops' = ops \cup {Call("start", i, data.generation + 1, data.config)}
            /\ epoch' = [epoch EXCEPT ![i] = @ + 1]
            /\ lastGen' = ObserveGen(instances')
            /\ UNCHANGED <<saves, served, resp>>
    /\ UNCHANGED <<tasks, ntasks, file, born, persistence, boot, persisted_instances, planeVars>>

\* POST /instances/{id}/restart.  The handles are taken and aborted before the build.
restart_instance(i) ==
    /\ CanBegin
    /\ instances[i].status # "absent"
    /\ LET data == instances[i] IN
       /\ tasks' = abort_both(tasks, data.tcp_abort, data.udp_abort)
       /\ IF ~try_build(data.config)
          THEN /\ instances' = [instances EXCEPT ![i] =
                      [data EXCEPT !.tcp_abort = NoHandle, !.udp_abort = NoHandle]]
               /\ served' = served + 1
               /\ Respond("400", "none")
               /\ UNCHANGED <<ops, epoch>>
          ELSE /\ instances' = [instances EXCEPT ![i] = Prepared(data, data.config)]
               /\ ops' = ops \cup {Call("restart", i, data.generation + 1, data.config)}
               /\ epoch' = [epoch EXCEPT ![i] = @ + 1]
               /\ UNCHANGED <<served, resp>>
    /\ lastGen' = ObserveGen(instances')
    /\ UNCHANGED <<ntasks, saves, file, born, persistence, boot, persisted_instances, planeVars>>

\* ---- HTTP handlers that hold the registry lock once ----

\* A stop without the conflict check.
stop_instance_without_conflict(i) ==
    /\ Serving
    /\ Started < MaxOps
    /\ instances[i].status # "absent"
    /\ LET data == instances[i] IN
       /\ instances' = [instances EXCEPT ![i] =
             [data EXCEPT !.tcp_abort = NoHandle, !.udp_abort = NoHandle,
                          !.status = "Stopped", !.msg = NoMsg, !.updated_at = now_rfc3339]]
       /\ tasks' = abort_both(tasks, data.tcp_abort, data.udp_abort)
       /\ spawn_save(instances')
       /\ epoch' = [epoch EXCEPT ![i] = @ + 1]
       /\ lastGen' = ObserveGen(instances')
       /\ served' = served + 1
       /\ Respond("200", "Stopped")
    /\ UNCHANGED <<ops, ntasks, file, born, persistence, boot, persisted_instances, planeVars>>

\* POST /instances/{id}/stop.
stop_instance(i) ==
    /\ Serving
    /\ Started < MaxOps
    /\ instances[i].status # "absent"
    /\ LET data == instances[i] IN
       IF data.tcp_abort = NoHandle /\ data.udp_abort = NoHandle /\ data.status # "Running"
       THEN /\ served' = served + 1
            /\ Respond("409", "none")
            /\ UNCHANGED <<instances, tasks, saves, epoch, lastGen>>
       ELSE /\ instances' = [instances EXCEPT ![i] =
                   [data EXCEPT !.tcp_abort = NoHandle, !.udp_abort = NoHandle,
                                !.status = "Stopped", !.msg = NoMsg, !.updated_at = now_rfc3339]]
            /\ tasks' = abort_both(tasks, data.tcp_abort, data.udp_abort)
            /\ spawn_save(instances')
            /\ epoch' = [epoch EXCEPT ![i] = @ + 1]
            /\ lastGen' = ObserveGen(instances')
            /\ served' = served + 1
            /\ Respond("200", "Stopped")
    /\ UNCHANGED <<ops, ntasks, file, born, persistence, boot, persisted_instances, planeVars>>

\* DELETE /instances/{id}.
delete_instance(i) ==
    /\ Serving
    /\ Started < MaxOps
    /\ instances[i].status # "absent"
    /\ LET data == instances[i] IN
       /\ instances' = [instances EXCEPT ![i] = Absent]
       /\ tasks' = abort_both(tasks, data.tcp_abort, data.udp_abort)
    /\ spawn_save(instances')
    /\ epoch' = [epoch EXCEPT ![i] = @ + 1]
    /\ lastGen' = ObserveGen(instances')
    /\ served' = served + 1
    /\ Respond("204", "none")
    /\ UNCHANGED <<ops, ntasks, file, born, persistence, boot, persisted_instances, planeVars>>

\* PATCH /instances/{id} {auto_start}.
patch_instance_auto_start(i, b) ==
    /\ Serving
    /\ Started < MaxOps
    /\ instances[i].status # "absent"
    /\ instances' = [instances EXCEPT ![i] =
          [instances[i] EXCEPT !.auto_start = b, !.updated_at = now_rfc3339]]
    /\ spawn_save(instances')
    /\ served' = served + 1
    /\ Respond("200", instances[i].status)
    /\ UNCHANGED <<ops, tasks, ntasks, file, epoch, born, lastGen, persistence, boot, persisted_instances, planeVars>>

\* ---- start_realm_endpoint, one action per acquisition of the registry lock ----

Step(op, next) == (ops \ {op}) \cup {next}

StarterFailed(op) ==
    [op EXCEPT !.pc = "final", !.res = "err", !.tcp_abort = NoHandle, !.udp_abort = NoHandle]

\* Is the record the starter was called for still there at its generation?
generation_matches(data, generation) ==
    data.status # "absent" /\ data.generation = generation

\* A task the starter `op` spawns: the (id, generation) its watcher captures, the
\* request that owns it, and the epoch of the id at the time of spawning.
Spawned(proto, op, state, watcher) ==
    [proto |-> proto, id |-> op.id, generation |-> op.generation, owner |-> op.epoch,
     epoch |-> epoch[op.id], state |-> state, ready |-> "none", watcher |-> watcher]

\* The generation check at entry; nothing is spawned before it.
start_realm_endpoint_entry(op) ==
    /\ op.pc = "entry"
    /\ IF ~generation_matches(instances[op.id], op.generation)
       THEN ops' = Step(op, StarterFailed(op))
       ELSE ops' = Step(op, [op EXCEPT !.pc = IF use_udp(op.config) THEN "udp" ELSE "tcp"])
    /\ UNCHANGED <<instances, tasks, ntasks, saves, file, served, epoch, born, lastGen,
                   persistence, resp, boot, persisted_instances, planeVars>>

\* use_udp: spawn the UDP task, install its handle under the lock, register its watcher.
start_realm_endpoint_udp(op) ==
    /\ op.pc = "udp"
    /\ ntasks < MaxTasks
    /\ ntasks' = ntasks + 1
    /\ LET t == ntasks + 1 IN
       IF ~generation_matches(instances[op.id], op.generation)
       THEN /\ tasks' = [tasks EXCEPT ![t] = Spawned("udp", op, "aborted", "none")]
            /\ ops' = Step(op, StarterFailed(op))
            /\ instances' = instances
       ELSE /\ tasks' = [tasks EXCEPT ![t] = Spawned("udp", op, "starting", "armed")]
            /\ instances' = [instances EXCEPT ![op.id].udp_abort = t]
            /\ ops' = Step(op, [op EXCEPT !.udp_abort = t,
                                          !.pc = IF no_tcp(op.config) THEN "udp_ready"
                                                 ELSE "tcp"])
    /\ UNCHANGED <<saves, file, served, epoch, born, lastGen, persistence, resp, boot, persisted_instances, planeVars>>

\* !no_tcp: spawn the TCP task, install its handle under the lock, register its watcher.
start_realm_endpoint_tcp(op) ==
    /\ op.pc = "tcp"
    /\ ntasks < MaxTasks
    /\ ntasks' = ntasks + 1
    /\ LET t == ntasks + 1 IN
       IF ~generation_matches(instances[op.id], op.generation)
       THEN /\ tasks' = abort([tasks EXCEPT ![t] = Spawned("tcp", op, "aborted", "none")],
                              op.udp_abort)
            /\ ops' = Step(op, StarterFailed(op))
            /\ instances' = instances
       ELSE /\ tasks' = [tasks EXCEPT ![t] = Spawned("tcp", op, "starting", "armed")]
            /\ instances' = [instances EXCEPT ![op.id].tcp_abort = t]
            /\ ops' = Step(op, [op EXCEPT !.tcp_abort = t,
                                          !.pc = IF op.udp_abort # NoHandle THEN "udp_ready"
                                                 ELSE "tcp_ready"])
    /\ UNCHANGED <<saves, file, served, epoch, born, lastGen, persistence, resp, boot, persisted_instances, planeVars>>

\* timeout(3 s, udp_ready): Ok(()) goes on; a bind error, a closed channel or the
\* timeout aborts both tasks and returns the error.
start_realm_endpoint_udp_ready(op) ==
    /\ op.pc = "udp_ready"
    /\ IF tasks[op.udp_abort].ready = "ok"
       THEN /\ ops' = Step(op, [op EXCEPT
                         !.pc = IF op.tcp_abort # NoHandle THEN "tcp_ready" ELSE "final",
                         !.res = IF op.tcp_abort # NoHandle THEN "none" ELSE "ok"])
            /\ tasks' = tasks
       ELSE /\ ops' = Step(op, StarterFailed(op))
            /\ tasks' = abort_both(tasks, op.tcp_abort, op.udp_abort)
    /\ UNCHANGED <<instances, ntasks, saves, file, served, epoch, born, lastGen, persistence, resp, boot, persisted_instances, planeVars>>

\* timeout(3 s, tcp_ready), then Ok((tcp_abort, udp_abort)).
start_realm_endpoint_tcp_ready(op) ==
    /\ op.pc = "tcp_ready"
    /\ IF tasks[op.tcp_abort].ready = "ok"
       THEN /\ ops' = Step(op, [op EXCEPT !.pc = "final", !.res = "ok"])
            /\ tasks' = tasks
       ELSE /\ ops' = Step(op, StarterFailed(op))
            /\ tasks' = abort_both(tasks, op.tcp_abort, op.udp_abort)
    /\ UNCHANGED <<instances, ntasks, saves, file, served, epoch, born, lastGen, persistence, resp, boot, persisted_instances, planeVars>>

\* ---- the install section of create/update/start/restart (second lock acquisition) ----

\* An install section that takes a starter error for a stop.
install_start_result_err_as_stopped(data, op) ==
    IF op.res = "ok"
    THEN IF data.status # "Failed"
         THEN [data EXCEPT !.tcp_abort = op.tcp_abort, !.udp_abort = op.udp_abort,
                           !.status = "Running", !.msg = NoMsg, !.updated_at = now_rfc3339]
         ELSE [data EXCEPT !.updated_at = now_rfc3339]
    ELSE [data EXCEPT !.status = "Stopped", !.msg = NoMsg, !.tcp_abort = NoHandle, !.udp_abort = NoHandle,
                      !.updated_at = now_rfc3339]

\* match start_result { Ok => install unless Failed, Err => Failed and handles dropped }
install_start_result(data, op) ==
    IF op.res = "ok"
    THEN IF data.status # "Failed"
         THEN [data EXCEPT !.tcp_abort = op.tcp_abort, !.udp_abort = op.udp_abort,
                           !.status = "Running", !.msg = NoMsg, !.updated_at = now_rfc3339]
         ELSE [data EXCEPT !.updated_at = now_rfc3339]
    ELSE [data EXCEPT !.status = "Failed", !.msg = ErrMsg, !.tcp_abort = NoHandle, !.udp_abort = NoHandle,
                      !.updated_at = now_rfc3339]

\* The install section: of a handler, which then answers (500 "instance disappeared",
\* 201 for an insert, 200 otherwise, with the instance), or of the auto-start loop.
finish_lifecycle(op) ==
    /\ op.pc = "final"
    /\ LET data == instances[op.id] IN
       IF data.status = "absent"
       THEN /\ IF op.kind = "boot"
               THEN UNCHANGED <<served, resp>>
               ELSE served' = served + 1 /\ Respond("500", "none")
            /\ UNCHANGED <<instances, saves>>
       ELSE /\ instances' = [instances EXCEPT ![op.id] = install_start_result(data, op)]
            /\ spawn_save(instances')
            /\ IF op.kind = "boot"
               THEN UNCHANGED <<served, resp>>
               ELSE /\ served' = served + 1
                    /\ Respond(IF op.kind = "create" THEN "201" ELSE "200",
                               instances'[op.id].status)
    /\ ops' = ops \ {op}
    /\ lastGen' = ObserveGen(instances')
    /\ UNCHANGED <<tasks, ntasks, file, epoch, born, persistence, boot, persisted_instances, planeVars>>

\* ---- endpoint tasks (run_tcp_inner / run_udp_inner seen from the manager) ----

\* socket::bind succeeds: ready.send(Ok(())), then the task serves.
task_bind_ok(t) ==
    /\ tasks[t].state = "starting"
    /\ tasks' = [tasks EXCEPT ![t].state = "running", ![t].ready = "ok"]
    /\ UNCHANGED <<instances, ops, ntasks, saves, file, served, epoch, born, lastGen,
                   persistence, resp, boot, persisted_instances, planeVars>>

\* socket::bind fails: ready.send(Err(e)); return Err(e).
task_bind_fail(t) ==
    /\ tasks[t].state = "starting"
    /\ tasks' = [tasks EXCEPT ![t].state = "ended", ![t].ready = "err"]
    /\ UNCHANGED <<instances, ops, ntasks, saves, file, served, epoch, born, lastGen,
                   persistence, resp, boot, persisted_instances, planeVars>>

\* The serving task ends by itself: a fatal accept error, or a panic.
task_exit(t) ==
    /\ tasks[t].state = "running"
    /\ tasks' = [tasks EXCEPT ![t].state = "ended"]
    /\ UNCHANGED <<instances, ops, ntasks, saves, file, served, epoch, born, lastGen,
                   persistence, resp, boot, persisted_instances, planeVars>>

\* ---- crash watcher ----

\* A watcher that would clear its own protocol's handle only.
mark_failed_own_handle(data, protocol) ==
    IF protocol = "tcp"
    THEN [data EXCEPT !.tcp_abort = NoHandle, !.status = "Failed", !.msg = ErrMsg, !.updated_at = now_rfc3339]
    ELSE [data EXCEPT !.udp_abort = NoHandle, !.status = "Failed", !.msg = ErrMsg, !.updated_at = now_rfc3339]

\* What a watcher whose generation matches does to the record.
mark_failed(data, protocol) ==
    [data EXCEPT !.tcp_abort = NoHandle, !.udp_abort = NoHandle,
                 !.status = "Failed", !.msg = ErrMsg, !.updated_at = now_rfc3339]

\* The handle of the other protocol, which the watcher takes and aborts.
peer_handle(data, protocol) ==
    IF protocol = "tcp" THEN data.udp_abort ELSE data.tcp_abort

\* The body of the task spawn_endpoint_watcher spawns, once join.await has resolved
\* with the task's own result (error, return or panic).  When the task was aborted
\* the JoinError is_cancelled and the watcher returns at once, touching nothing: it
\* takes no step here.
spawn_endpoint_watcher(t) ==
    /\ tasks[t].watcher = "armed"
    /\ tasks[t].state = "ended"
    /\ LET w == tasks[t]
           data == instances[w.id] IN
       IF ~generation_matches(data, w.generation)
       THEN /\ tasks' = [tasks EXCEPT ![t].watcher = "stale"]
            /\ UNCHANGED <<instances, saves>>
       ELSE /\ instances' = [instances EXCEPT ![w.id] = mark_failed(data, w.proto)]
            /\ tasks' = [abort(tasks, peer_handle(data, w.proto)) EXCEPT ![t].watcher = "fired"]
            /\ spawn_save(instances')
    /\ lastGen' = ObserveGen(instances')
    /\ UNCHANGED <<ops, ntasks, file, served, epoch, born, persistence, resp, boot, persisted_instances, planeVars>>

\* ---- start_api_server: the auto-start loop over the restored instances ----

\* The configs a persistence file may hold.
StoredConfigs == Configs \cup {"invalid"}

\* One iteration up to the call of the starter.  A build failure marks the record Failed
\* and goes on to the next id.
boot_auto_start(i) ==
    /\ i \in boot
    /\ ops = {}
    /\ boot' = boot \ {i}
    /\ LET data == instances[i] IN
       IF data.status = "absent"
       THEN UNCHANGED <<instances, ops, epoch>>
       ELSE IF ~try_build(data.config)
       THEN /\ instances' = [instances EXCEPT ![i] =
                   [data EXCEPT !.status = "Failed", !.msg = ErrMsg, !.updated_at = now_rfc3339]]
            /\ UNCHANGED <<ops, epoch>>
       ELSE /\ instances' = [instances EXCEPT ![i] =
                   [data EXCEPT !.generation = data.generation + 1,
                                !.updated_at = now_rfc3339]]
            /\ ops' = ops \cup {Call("boot", i, data.generation + 1, data.config)}
            /\ epoch' = [epoch EXCEPT ![i] = @ + 1]
    /\ lastGen' = ObserveGen(instances')
    /\ UNCHANGED <<tasks, ntasks, saves, file, served, born, persistence, resp,
                   persisted_instances, planeVars>>

\* ---- persistence ----

\* One spawned save task runs save_instances under write_lock; the spawned tasks
\* reach the lock in any order.
save_instances ==
    /\ \E snapshot \in saves :
          /\ file' = PersistedInstances(snapshot)
          /\ saves' = saves \ {snapshot}
    /\ UNCHANGED <<instances, ops, tasks, ntasks, served, epoch, born, lastGen, persistence, resp, boot, persisted_instances, planeVars>>

\* The starter called by a handler or by the auto-start loop, the install section, the
\* endpoint tasks and their watchers.
Internal ==
    \/ \E op \in ops : start_realm_endpoint_entry(op)
    \/ \E op \in ops : start_realm_endpoint_udp(op)
    \/ \E op \in ops : start_realm_endpoint_tcp(op)
    \/ \E op \in ops : start_realm_endpoint_udp_ready(op)
    \/ \E op \in ops : start_realm_endpoint_tcp_ready(op)
    \/ \E op \in ops : finish_lifecycle(op)
    \/ \E t \in TaskIds : task_bind_ok(t)
    \/ \E t \in TaskIds : task_bind_fail(t)
    \/ \E t \in TaskIds : task_exit(t)
    \/ \E t \in TaskIds : spawn_endpoint_watcher(t)

Next ==
    \/ \E i \in Ids, c \in Configs : create_instance(i, c)
    \/ \E i \in Ids, c \in Configs : update_instance(i, c)
    \/ \E i \in Ids : start_instance(i)
    \/ \E i \in Ids : restart_instance(i)
    \/ \E i \in Ids : stop_instance(i)
    \/ \E i \in Ids : delete_instance(i)
    \/ \E i \in Ids, b \in BOOLEAN : patch_instance_auto_start(i, b)
    \/ Internal

Spec == Init /\ [][Next]_vars

NextPersist == Next \/ save_instances

SpecPersist == InitPersist /\ [][NextPersist]_vars

\* The error messages of the Failed statuses a persistence file may hold.
Msgs == {ErrMsg, <<"e", ")">>}

\* The files save_instances may have written: one PersistedInstance for each id.
StoredInstance ==
    [status : {<<"Running">>, <<"Stopped">>}
                \cup {format_status([status |-> "Failed", msg |-> m]) : m \in Msgs},
     config : StoredConfigs, auto_start : BOOLEAN, created_at : {now_rfc3339},
     updated_at : {0}]

StoredFiles ==
    {{[id |-> i, config |-> f[i].config, status |-> f[i].status,
       auto_start |-> f[i].auto_start, created_at |-> f[i].created_at,
       updated_at |-> f[i].updated_at] : i \in Ids} : f \in [Ids -> StoredInstance]}

\* str::strip_prefix and str::strip_suffix give Some(rest), here <<rest>>, or None, <<>>.
strip_prefix(s, prefix) ==
    IF Len(s) >= Len(prefix) /\ SubSeq(s, 1, Len(prefix)) = prefix
    THEN <<SubSeq(s, Len(prefix) + 1, Len(s))>>
    ELSE <<>>

strip_suffix(s, suffix) ==
    IF Len(s) >= Len(suffix) /\ SubSeq(s, Len(s) - Len(suffix) + 1, Len(s)) = suffix
    THEN <<SubSeq(s, 1, Len(s) - Len(suffix))>>
    ELSE <<>>

unwrap_or(o, default) == IF o = <<>> THEN default ELSE o[1]

UnknownError == <<"Unknown error">>

\* The match on persisted.status: the InstanceStatus of a restored instance.
restore_status(s) ==
    IF s \in {<<"Running">>, <<"Stopped">>}
    THEN [status |-> "Stopped", msg |-> NoMsg]
    ELSE IF strip_prefix(s, <<"Failed(">>) # <<>>
    THEN [status |-> "Failed",
          msg |-> unwrap_or(strip_suffix(unwrap_or(strip_prefix(s, <<"Failed(">>),
                                                   UnknownError), <<")">>),
                            UnknownError)]
    ELSE [status |-> "Stopped", msg |-> NoMsg]

\* The loop that fills restored_instances: no handles, generation 0.
restored_instances(persisted) ==
    [i \in Ids |->
        IF \E p \in persisted : p.id = i
        THEN LET p == CHOOSE q \in persisted : q.id = i IN
             [status |-> restore_status(p.status).status,
              msg |-> restore_status(p.status).msg,
              config |-> p.config, auto_start |-> p.auto_start,
              tcp_abort |-> NoHandle, udp_abort |-> NoHandle, generation |-> 0,
              created_at |-> p.created_at, updated_at |-> p.updated_at]
        ELSE Absent]

\* A filter that would let the Failed instances through.
auto_start_ids_with_failed(insts) ==
    {i \in Ids : insts[i].status # "absent" /\ insts[i].auto_start}

\* The ids the auto-start loop goes through.
auto_start_ids(insts) ==
    {i \in Ids : insts[i].status # "absent" /\ insts[i].auto_start
                    /\ insts[i].status # "Failed"}

\* start_api_server after load_instances, before the auto-start loop; the responses of
\* the server are followed.
InitBoot ==
    /\ persisted_instances \in StoredFiles
    /\ instances = restored_instances(persisted_instances)
    /\ boot = auto_start_ids(instances)
    /\ file = persisted_instances
    /\ ops = {}
    /\ tasks = [t \in TaskIds |-> NoTask]
    /\ ntasks = 0
    /\ saves = {}
    /\ served = 0
    /\ epoch = [i \in Ids |-> 0]
    /\ born = [i \in Ids |-> 0]
    /\ lastGen = [i \in Ids |-> 0]
    /\ persistence = TRUE
    /\ resp = [code |-> "none", status |-> "none", serial |-> TRUE]
    /\ InitTcp(FALSE) /\ IdleUdp /\ IdleHealth /\ IdleDial /\ IdleCalc

\* The auto-start loop, then the lifecycle requests on the restored instances.
NextBoot ==
    \/ \E i \in Ids : boot_auto_start(i)
    \/ \E i \in Ids : start_instance(i)
    \/ \E i \in Ids : restart_instance(i)
    \/ \E i \in Ids : stop_instance(i)
    \/ Internal
    \/ save_instances

SpecBoot == InitBoot /\ [][NextBoot]_vars

\* The registry without a PersistenceManager, the responses followed, the handlers with a
\* starter one at a time.
InitAnswer == InitWith(FALSE, "none") /\ InitTcp(FALSE) /\ IdleUdp /\ IdleHealth /\ IdleDial /\ IdleCalc

SpecAnswer == InitAnswer /\ [][Next]_vars

\* POST /instances requests for the same ids in flight together, their responses followed.
InitUpsert ==
    InitRegistry(FALSE, "none", FALSE) /\ InitTcp(FALSE) /\ IdleUdp /\ IdleHealth /\ IdleDial /\ IdleCalc

NextUpsert ==
    \/ \E i \in Ids, c \in Configs : create_instance(i, c)
    \/ Internal

SpecUpsert == InitUpsert /\ [][NextUpsert]_vars

\* ---- the TCP data plane: the observer (impl TcpObserver for InstanceStats) ----

NewEntry == [backend |-> FALSE, inbound_bytes |-> 0, outbound_bytes |-> 0]

on_connection_open(st) ==
    LET id == st.next_conn_id + 1
        conns == st.connections IN
    [st EXCEPT !.next_conn_id = id,
               !.total_connections = @ + 1,
               !.connections = [c \in DOMAIN conns \cup {id} |->
                                   IF c = id THEN NewEntry ELSE conns[c]]]

on_connection_backend(st, id) ==
    [st EXCEPT !.connections = [c \in DOMAIN @ |-> IF c = id THEN [@[c] EXCEPT !.backend = TRUE]
                                                     ELSE @[c]],
               !.last_success_backend = TRUE]

on_connection_bytes(st, id, inbound_delta, outbound_delta) ==
    LET known == id \in DOMAIN st.connections /\ (inbound_delta > 0 \/ outbound_delta > 0)
        backend == known /\ st.connections[id].backend IN
    [st EXCEPT !.total_inbound_bytes = @ + inbound_delta,
               !.total_outbound_bytes = @ + outbound_delta,
               !.connections = IF known
                               THEN [@ EXCEPT ![id].inbound_bytes = @ + inbound_delta,
                                              ![id].outbound_bytes = @ + outbound_delta]
                               ELSE @,
               !.tcp_bytes_by_backend =
                   IF backend
                   THEN [inbound_bytes |-> @.inbound_bytes + inbound_delta,
                         outbound_bytes |-> @.outbound_bytes + outbound_delta]
                   ELSE @]

on_connection_end(st, id) ==
    [st EXCEPT !.connections = [c \in DOMAIN @ \ {id} |-> @[c]]]

\* ---- the counting streams ----

\* connect_and_relay wraps the accepted socket and the backend socket.
CountDirection(stream) == IF stream = "local" THEN "Inbound" ELSE "Outbound"

\* CountStream::poll_write / poll_write_raw: the (inbound_delta, outbound_delta) a
\* completed write of n bytes to the wrapped stream reports.
poll_write(stream, n) ==
    IF CountDirection(stream) = "Inbound" THEN <<n, 0>> ELSE <<0, n>>

\* ---- run_tcp_inner: the accept loop ----

\* accept, on_connection_open, the socket options, tokio::spawn of the relay task.
accept_spawn ==
    /\ lis = "listening"
    /\ stats.next_conn_id < MaxConns
    /\ LET id == stats.next_conn_id + 1 IN
       /\ stats' = on_connection_open(stats)
       /\ calls' = [calls EXCEPT ![id].open = @ + 1]
       /\ conn' = [conn EXCEPT ![id].pc = "connect"]
    /\ UNCHANGED <<lis, keepalive, offTcpVars>>

\* accept, on_connection_open, then set_tcp_keepalive(kpa)? fails: run_tcp_inner
\* returns the error.
accept_keepalive_error ==
    /\ lis = "listening"
    /\ keepalive
    /\ stats.next_conn_id < MaxConns
    /\ LET id == stats.next_conn_id + 1 IN
       /\ stats' = on_connection_open(stats)
       /\ calls' = [calls EXCEPT ![id].open = @ + 1]
    /\ lis' = "ended"
    /\ UNCHANGED <<keepalive, conn, offTcpVars>>

\* lis.accept() fails with an error other than ConnectionAborted.
accept_error ==
    /\ lis = "listening"
    /\ lis' = "ended"
    /\ UNCHANGED <<keepalive, conn, stats, calls, offTcpVars>>

\* A lifecycle operation calls abort() on the handle of the run_tcp task.
abort_listener ==
    /\ lis = "listening"
    /\ lis' = "aborted"
    /\ UNCHANGED <<keepalive, conn, stats, calls, offTcpVars>>

\* ---- the detached per-connection task: connect_and_relay, then on_connection_end ----

\* No backend could be reached, the client went away, or the proxy handshake failed:
\* connect_and_relay returns Err and the task reports the end.
connect_fail(c) ==
    /\ conn[c].pc = "connect"
    /\ conn' = [conn EXCEPT ![c].pc = "done"]
    /\ stats' = on_connection_end(stats, c)
    /\ calls' = [calls EXCEPT ![c].end = @ + 1]
    /\ UNCHANGED <<lis, keepalive, offTcpVars>>

\* A backend is connected: on_connection_backend, then the streams are wrapped.
connect_ok(c) ==
    /\ conn[c].pc = "connect"
    /\ conn' = [conn EXCEPT ![c].pc = "relay"]
    /\ stats' = on_connection_backend(stats, c)
    /\ calls' = [calls EXCEPT ![c].backend = @ + 1]
    /\ UNCHANGED <<lis, keepalive, offTcpVars>>

Reported(c, deltas) ==
    /\ stats' = on_connection_bytes(stats, c, deltas[1], deltas[2])
    /\ calls' = [calls EXCEPT ![c].inbound = @ + deltas[1], ![c].outbound = @ + deltas[2]]

\* run_relay writes n bytes read from the client to the backend stream.
relay_local_to_remote(c, n) ==
    /\ conn[c].pc = "relay"
    /\ conn[c].to_remote + n <= MaxBytes
    /\ conn' = [conn EXCEPT ![c].to_remote = @ + n]
    /\ Reported(c, poll_write("remote", n))
    /\ UNCHANGED <<lis, keepalive, offTcpVars>>

\* run_relay writes n bytes read from the backend to the client stream.
relay_remote_to_local(c, n) ==
    /\ conn[c].pc = "relay"
    /\ conn[c].to_client + n <= MaxBytes
    /\ conn' = [conn EXCEPT ![c].to_client = @ + n]
    /\ Reported(c, poll_write("local", n))
    /\ UNCHANGED <<lis, keepalive, offTcpVars>>

\* An end that would be reported while the relay goes on.
relay_end_while_relaying(c) ==
    /\ conn[c].pc = "relay"
    /\ calls[c].end = 0
    /\ stats' = on_connection_end(stats, c)
    /\ calls' = [calls EXCEPT ![c].end = @ + 1]
    /\ UNCHANGED <<lis, keepalive, conn, offTcpVars>>

\* run_relay returns (its error is ignored): on_connection_end(conn_id, None).
relay_end(c) ==
    /\ conn[c].pc = "relay"
    /\ conn' = [conn EXCEPT ![c].pc = "done"]
    /\ stats' = on_connection_end(stats, c)
    /\ calls' = [calls EXCEPT ![c].end = @ + 1]
    /\ UNCHANGED <<lis, keepalive, offTcpVars>>

InitTcpSpec ==
    /\ InitWith(FALSE, "off") /\ IdleUdp /\ IdleHealth /\ IdleDial /\ IdleCalc
    /\ \E k \in BOOLEAN : InitTcp(k)

NextTcp ==
    \/ accept_spawn
    \/ accept_keepalive_error
    \/ accept_error
    \/ abort_listener
    \/ \E c \in ConnIds : connect_fail(c)
    \/ \E c \in ConnIds : connect_ok(c)
    \/ \E c \in ConnIds, n \in 1..MaxBytes : relay_local_to_remote(c, n)
    \/ \E c \in ConnIds, n \in 1..MaxBytes : relay_remote_to_local(c, n)
    \/ \E c \in ConnIds : relay_end(c)

SpecTcp == InitTcpSpec /\ [][NextTcp]_vars

\* ---- the UDP data plane: the return-path task of one association (send_back) ----
\* Time is kept relative to the present instant, in milliseconds: assoc.tick and
\* assoc.deadline are the delays after which the two branches of the select! become
\* ready, assoc.idle is the time since the upstream socket last delivered a datagram
\* (history, counted up to the associate timeout).

\* conn_opts.associate_timeout, in seconds (zero, "no timeout", is left out).
AssociateTimeouts == {1, 2}

\* The delays, in milliseconds, after which the upstream socket delivers a batch.
Delays == {0, 100, 300}

MaxBatches == 2

\* tick = interval(Duration::from_millis(500))
TickMs == 500

Min(a, b) == IF a <= b THEN a ELSE b

\* crate::time::timeoutfut(fut, timeout): the delay after which the future gives Err(Elapsed).
timeoutfut(timeout) == 1000 * timeout

\* d milliseconds pass with both branches of the select! pending.
Elapse(a, d) ==
    [a EXCEPT !.idle = Min(@ + d, timeoutfut(a.timeout)), !.tick = @ - d, !.deadline = @ - d]

\* associate_and_relay has inserted the source into the SockMap, called on_session_open and
\* spawned send_back, which is at its first select!: the interval's first tick is immediate.
InitAssoc ==
    \E t \in AssociateTimeouts :
        assoc = [pc |-> "select", run_guard |-> TRUE, timeout |-> t, tick |-> 0,
                 deadline |-> timeoutfut(t), idle |-> 0, in_sockmap |-> TRUE, closes |-> 0,
                 batches |-> 0]

\* A task that would go on ticking whether or not the run guard is alive.
send_back_wake_ignoring_guard ==
    /\ assoc.pc = "select"
    /\ \E branch \in {"tick", "timeout"} :
        /\ branch = "tick" => assoc.tick <= assoc.deadline
        /\ branch = "timeout" => assoc.deadline <= assoc.tick
        /\ assoc' =
             IF branch = "tick"
             THEN [Elapse(assoc, assoc.tick) EXCEPT
                      !.tick = TickMs, !.deadline = timeoutfut(assoc.timeout)]
             ELSE [Elapse(assoc, assoc.deadline) EXCEPT !.pc = "break"]
    /\ UNCHANGED <<mgrVars, tcpVars, healthVars, dialVars, calcVars>>

\* The select! wakes without a datagram: the branch that is ready first wins (either one
\* when both are ready).  The tick branch breaks when the run guard is gone and otherwise
\* continues, which starts the next iteration with a new timeoutfut; the timeout branch
\* breaks.
send_back_wake ==
    /\ assoc.pc = "select"
    /\ \E branch \in {"tick", "timeout"} :
        /\ branch = "tick" => assoc.tick <= assoc.deadline
        /\ branch = "timeout" => assoc.deadline <= assoc.tick
        /\ assoc' =
             IF branch = "tick"
             THEN LET a == Elapse(assoc, assoc.tick) IN
                  IF a.run_guard
                  THEN [a EXCEPT !.tick = TickMs, !.deadline = timeoutfut(a.timeout)]
                  ELSE [a EXCEPT !.tick = TickMs, !.pc = "break"]
             ELSE [Elapse(assoc, assoc.deadline) EXCEPT !.pc = "break"]
    /\ UNCHANGED <<mgrVars, tcpVars, healthVars, dialVars, calcVars>>

\* batched_recv_on completes after d milliseconds, before either timer: with an error the
\* loop breaks; with a batch send_all forwards it to the client (on_bytes(0, bytes)) and the
\* loop starts its next iteration, or breaks if send_all fails.
send_back_recv(d, recv_ok, send_ok) ==
    /\ assoc.pc = "select"
    /\ d <= assoc.tick /\ d <= assoc.deadline
    /\ recv_ok /\ send_ok => assoc.batches < MaxBatches
    /\ LET a == Elapse(assoc, d) IN
       assoc' = IF ~recv_ok THEN [a EXCEPT !.pc = "break"]
                ELSE IF ~send_ok THEN [a EXCEPT !.idle = 0, !.pc = "break"]
                ELSE [a EXCEPT !.idle = 0, !.batches = @ + 1,
                               !.deadline = timeoutfut(a.timeout)]
    /\ UNCHANGED <<mgrVars, tcpVars, healthVars, dialVars, calcVars>>

\* The endpoint's task ends (abort or error): the run guard it owns is dropped.
drop_run_guard ==
    /\ assoc.pc = "select"
    /\ assoc.run_guard
    /\ assoc' = [assoc EXCEPT !.run_guard = FALSE]
    /\ UNCHANGED <<mgrVars, tcpVars, healthVars, dialVars, calcVars>>

\* After the loop: sockmap.remove(&laddr) and on_session_close(laddr).
send_back_exit ==
    /\ assoc.pc = "break"
    /\ assoc' = [assoc EXCEPT !.pc = "closed", !.in_sockmap = FALSE, !.closes = @ + 1]
    /\ UNCHANGED <<mgrVars, tcpVars, healthVars, dialVars, calcVars>>

InitUdp == InitWith(FALSE, "off") /\ InitTcp(FALSE) /\ InitAssoc /\ IdleHealth /\ IdleDial /\ IdleCalc

NextUdp ==
    \/ send_back_wake
    \/ \E d \in Delays, recv_ok \in BOOLEAN, send_ok \in BOOLEAN : send_back_recv(d, recv_ok, send_ok)
    \/ drop_run_guard
    \/ send_back_exit

\* The timers run and a task that can run does run.
SpecUdp ==
    /\ InitUdp
    /\ [][NextUdp]_vars
    /\ WF_vars(send_back_wake)
    /\ WF_vars(send_back_exit)

\* ---- u64 arithmetic ----
\* A u64 is kept as three limbs <<h, m, l>> of 8, 28 and 28 bits, most significant first,
\* so that no intermediate result leaves the range of the model checker's integers.
Limb == 268435456

U64(n) == <<0, 0, n>>

U64_MAX == <<255, Limb - 1, Limb - 1>>

Lt(x, y) ==
    \/ x[1] < y[1]
    \/ x[1] = y[1] /\ x[2] < y[2]
    \/ x[1] = y[1] /\ x[2] = y[2] /\ x[3] < y[3]

Le(x, y) == x = y \/ Lt(x, y)

saturating_add(x, y) ==
    LET l == x[3] + y[3]
        m == x[2] + y[2] + (IF l >= Limb THEN 1 ELSE 0)
        h == x[1] + y[1] + (IF m >= Limb THEN 1 ELSE 0)
    IN  IF h >= 256 THEN U64_MAX ELSE <<h, m % Limb, l % Limb>>

saturating_sub(x, y) ==
    IF Le(x, y) THEN U64(0)
    ELSE LET l == x[3] - y[3]
             m == x[2] - y[2] - (IF l < 0 THEN 1 ELSE 0)
             h == x[1] - y[1] - (IF m < 0 THEN 1 ELSE 0)
         IN  <<h, m % Limb, l % Limb>>

\* x.saturating_mul(1u64 << exp), one doubling at a time.
RECURSIVE saturating_mul_shl(_, _)
saturating_mul_shl(x, exp) ==
    IF exp = 0 THEN x ELSE saturating_mul_shl(saturating_add(x, x), exp - 1)

\* ---- FailoverHealth (tcp/health.rs) ----
HealthPeers == 1
MaxFails == 18
MaxNow == 2

\* Peer indexes: Token(0) is the endpoint's remote, the others are the extra remotes.
Peers(h) == DOMAIN h.peers

\* FailoverConf values of an endpoint: ok_ttl_ms, backoff_base_ms, backoff_max_ms.
OkTtls == {U64(1)}
BackoffBases == {U64(1), <<1, 0, 0>>}
BackoffMaxs == {U64(2), U64_MAX}

NoPeerHealth == [down_until_ms |-> U64(0), last_ok_ms |-> U64(0), fail_count |-> 0]

NoEvent == [kind |-> "none", at |-> 0, k |-> 0]

\* FailoverHealth::new(peer_count, ..): every peer zeroed; health.now is start.elapsed()
\* in milliseconds.
InitHealth(peer_count) ==
    /\ \E ttl \in OkTtls, base \in BackoffBases, max \in BackoffMaxs :
          health = [now |-> 0, ok_ttl_ms |-> ttl, backoff_base_ms |-> base,
                    backoff_max_ms |-> max, peers |-> [i \in 0 .. peer_count - 1 |-> NoPeerHealth]]
    /\ hist = [i \in 0 .. peer_count - 1 |-> NoEvent]

now_ms(h) == U64(h.now)

should_skip(h, idx) ==
    IF idx \in DOMAIN h.peers THEN Lt(now_ms(h), h.peers[idx].down_until_ms) ELSE FALSE

is_recent_ok(h, idx) ==
    IF idx \in DOMAIN h.peers
    THEN LET last_ok == h.peers[idx].last_ok_ms IN
         last_ok /= U64(0) /\ Le(saturating_sub(now_ms(h), last_ok), h.ok_ttl_ms)
    ELSE FALSE

mark_ok(h, idx) ==
    IF idx \in DOMAIN h.peers
    THEN [h EXCEPT !.peers[idx] = [last_ok_ms |-> now_ms(h), down_until_ms |-> U64(0),
                                   fail_count |-> 0]]
    ELSE h

\* A mark_fail that shifts by the uncapped count.
mark_fail_uncapped_exp(h, idx) ==
    IF idx \in DOMAIN h.peers
    THEN LET fail_count == h.peers[idx].fail_count + 1
             shifted == saturating_mul_shl(h.backoff_base_ms, fail_count)
             backoff == IF Lt(h.backoff_max_ms, shifted) THEN h.backoff_max_ms ELSE shifted
         IN  [h EXCEPT !.peers[idx] = [last_ok_ms |-> U64(0), fail_count |-> fail_count,
                                       down_until_ms |-> saturating_add(now_ms(h), backoff)]]
    ELSE h

mark_fail(h, idx) ==
    IF idx \in DOMAIN h.peers
    THEN LET fail_count == h.peers[idx].fail_count + 1
             exp == Min(fail_count, 16)
             shifted == saturating_mul_shl(h.backoff_base_ms, exp)
             backoff == IF Lt(h.backoff_max_ms, shifted) THEN h.backoff_max_ms ELSE shifted
         IN  [h EXCEPT !.peers[idx] = [last_ok_ms |-> U64(0), fail_count |-> fail_count,
                                       down_until_ms |-> saturating_add(now_ms(h), backoff)]]
    ELSE h

\* A connect to peer idx succeeded and the caller records it.
call_mark_ok(idx) ==
    /\ health' = mark_ok(health, idx)
    /\ hist' = [hist EXCEPT ![idx] = [kind |-> "ok", at |-> health.now, k |-> 0]]
    /\ UNCHANGED <<mgrVars, tcpVars, udpVars, dialVars, calcVars>>

\* A connect to peer idx failed and the caller records it.
call_mark_fail(idx) ==
    /\ hist[idx].k < MaxFails
    /\ health' = mark_fail(health, idx)
    /\ hist' = [hist EXCEPT ![idx] = [kind |-> "fail", at |-> health.now, k |-> @.k + 1]]
    /\ UNCHANGED <<mgrVars, tcpVars, udpVars, dialVars, calcVars>>

\* A millisecond passes.
clock_tick ==
    /\ health.now < MaxNow
    /\ health' = [health EXCEPT !.now = @ + 1]
    /\ UNCHANGED <<mgrVars, tcpVars, udpVars, hist, dialVars, calcVars>>

InitHealthSpec == InitWith(FALSE, "off") /\ InitTcp(FALSE) /\ IdleUdp /\ InitHealth(HealthPeers) /\ IdleDial /\ IdleCalc

NextHealth ==
    \/ \E idx \in Peers(health) : call_mark_ok(idx)
    \/ \E idx \in Peers(health) : call_mark_fail(idx)
    \/ clock_tick

SpecHealth == InitHealthSpec /\ [][NextHealth]_vars

\* ---- the connect loop of a per-connection task (connect_and_relay, tcp/middle.rs) ----
\* One connection at a time runs the loop against the endpoint's FailoverHealth; the clock
\* of the health object is also the clock of the retry window.  The 100 ms poll and the
\* duration of a connect are not tied to that clock: either may come first.
DialPeers == 2
MaxDials == 1
MaxPasses == 2

\* conn_opts.balancer.strategy() and the values of conn_opts.failover.
Strategies == {"off", "failover"}
RetryWindows == {0, 2}
RetrySleeps == {0, 1}
FailfastTimeouts == {0, 1}

\* balancer.candidates(..) turned into peers (tokens of a failover balancer are 0 .. total-1,
\* total being the number of remotes; out is never empty).
balance_candidates(strategy, total) ==
    IF strategy = "failover" /\ total > 0 THEN [n \in 1 .. total |-> n - 1] ELSE <<0>>

\* The filter without the fall-back to the unfiltered list.
allowed_of_no_fallback(h, failover_health, candidates) ==
    IF failover_health
    THEN SelectSeq(candidates, LAMBDA idx : ~should_skip(h, idx))
    ELSE candidates

\* The candidates of one pass.
allowed_of(h, failover_health, candidates) ==
    IF failover_health
    THEN LET out == SelectSeq(candidates, LAMBDA idx : ~should_skip(h, idx))
         IN  IF out = <<>> THEN candidates ELSE out
    ELSE candidates

NoDial == [pc |-> "idle", local |-> "silent", candidates |-> <<>>, allowed |-> <<>>,
           attempted |-> <<>>, skipped |-> {}, tried |-> [p \in 0 .. DialPeers - 1 |-> 0],
           cur |-> 0, failfast |-> FALSE, cancelled |-> FALSE, last_err |-> "none",
           remote |-> <<>>, start |-> 0, wake |-> 0, passes |-> 0, pass_done |-> FALSE,
           result |-> "none", dials |-> 0, backend |-> <<>>]

InitDial ==
    \E strategy \in Strategies, w \in RetryWindows, sl \in RetrySleeps, ff \in FailfastTimeouts :
        /\ strategy = "off" => w = 0 /\ sl = 0 /\ ff = 0
        /\ dial = [conf |-> [strategy |-> strategy, retry_window_ms |-> w,
                             retry_sleep_ms |-> sl, failfast_timeout_ms |-> ff]]
                   @@ NoDial

is_failover(d) == d.conf.strategy = "failover"

\* retry_window_ms and retry_sleep_ms as the task reads them.
retry_window_ms(d) == IF is_failover(d) THEN d.conf.retry_window_ms ELSE 0
retry_sleep_ms(d) == IF is_failover(d) THEN d.conf.retry_sleep_ms ELSE 0

\* local_is_closed: a one-byte peek of the client socket, once it completes.  Ok(0) at end
\* of stream gives true; Ok(1), while unread bytes are buffered (whether or not the client
\* has closed after them), and WouldBlock give false.
local_is_closed(d) == d.local = "eof"

\* The task returns Err(e).
Return(d, e) == [d EXCEPT !.pc = "done", !.result = e]

\* A loop that does not stop on a zero retry window and compares with `>`.
PassEnd_retrying(d, h) ==
    LET e == [d EXCEPT !.pass_done = TRUE] IN
    IF h.now - d.start > retry_window_ms(d) THEN Return(e, e.last_err)
    ELSE IF retry_sleep_ms(d) > 0
         THEN [e EXCEPT !.pc = "sleep", !.wake = h.now + retry_sleep_ms(d)]
         ELSE [e EXCEPT !.pc = "top"]

\* After the for loop without a connection: break, sleep or yield.
PassEnd(d, h) ==
    LET e == [d EXCEPT !.pass_done = TRUE] IN
    IF retry_window_ms(d) = 0 THEN Return(e, e.last_err)
    ELSE IF h.now - d.start >= retry_window_ms(d) THEN Return(e, e.last_err)
    ELSE IF retry_sleep_ms(d) > 0
         THEN [e EXCEPT !.pc = "sleep", !.wake = h.now + retry_sleep_ms(d)]
         ELSE [e EXCEPT !.pc = "top"]

\* A for loop that would keep the fail-fast timeout for peers whose last success is stale,
\* and connect to a peer without any success under the regular timeout.
NextAttempt_failfast_on_stale_only(d, h) ==
    IF d.allowed = <<>> THEN PassEnd(d, h)
    ELSE LET idx == Head(d.allowed)
             use_failfast == /\ is_failover(d) /\ ~is_recent_ok(h, idx)
                             /\ idx \in DOMAIN h.peers
                             /\ h.peers[idx].last_ok_ms /= U64(0)
         IN  [d EXCEPT !.pc = "connecting", !.cur = idx, !.allowed = Tail(@),
                       !.attempted = Append(@, idx), !.tried[idx] = @ + 1,
                       !.failfast = use_failfast /\ is_failover(d)
                                    /\ d.conf.failfast_timeout_ms > 0]

\* The for loop takes its next candidate and starts the connect, or ends.
NextAttempt(d, h) ==
    IF d.allowed = <<>> THEN PassEnd(d, h)
    ELSE LET idx == Head(d.allowed)
             use_failfast == is_failover(d) /\ ~is_recent_ok(h, idx)
         IN  [d EXCEPT !.pc = "connecting", !.cur = idx, !.allowed = Tail(@),
                       !.attempted = Append(@, idx), !.tried[idx] = @ + 1,
                       !.failfast = use_failfast /\ is_failover(d)
                                    /\ d.conf.failfast_timeout_ms > 0]

\* selected_raddr.unwrap_or(raddr0), the address handed to on_connection_backend; peer 0
\* is raddr0.
selected_raddr(selected) == IF selected = <<>> THEN 0 ELSE selected[1]

\* A failed branch that would leave the health of the peer alone.
ConnectFailed_unmarked(e) ==
    /\ UNCHANGED healthVars
    /\ dial' = NextAttempt([dial EXCEPT !.last_err = e], health)

\* The failed branch of the match on connect_res.
ConnectFailed(e) ==
    LET h == IF is_failover(dial) THEN mark_fail(health, dial.cur) ELSE health IN
    /\ health' = h
    /\ hist' = IF is_failover(dial)
               THEN [hist EXCEPT ![dial.cur] = [kind |-> "fail", at |-> health.now,
                                                k |-> @.k + 1]]
               ELSE hist
    /\ dial' = NextAttempt([dial EXCEPT !.last_err = e], h)

\* The accept loop spawns the task for a new connection.
dial_begin ==
    /\ dial.pc \in {"idle", "done"}
    /\ dial.dials < MaxDials
    /\ dial' = [conf |-> dial.conf]
                @@ [NoDial EXCEPT !.pc = "top", !.start = health.now, !.dials = dial.dials + 1,
                                  !.candidates = balance_candidates(dial.conf.strategy,
                                                                    Cardinality(Peers(health)))]
    /\ UNCHANGED <<mgrVars, tcpVars, udpVars, healthVars, calcVars>>

\* The client sends its first bytes, which stay unread until the relay starts.
client_sends ==
    /\ dial.pc \notin {"idle", "done"}
    /\ dial.local = "silent"
    /\ dial' = [dial EXCEPT !.local = "data"]
    /\ UNCHANGED <<mgrVars, tcpVars, udpVars, healthVars, calcVars>>

\* The client closes its side.
client_closes ==
    /\ dial.pc \notin {"idle", "done"}
    /\ dial.local \in {"silent", "data"}
    /\ dial' = [dial EXCEPT !.local = IF @ = "silent" THEN "eof" ELSE "data_eof"]
    /\ UNCHANGED <<mgrVars, tcpVars, udpVars, healthVars, calcVars>>

\* The head of the loop: the client check, then the candidates of this pass and the first
\* connect.
LoopTop ==
    IF local_is_closed(dial) THEN Return(dial, "BrokenPipe")
    ELSE LET allowed == allowed_of(health, is_failover(dial), dial.candidates)
         IN  NextAttempt([dial EXCEPT !.allowed = allowed, !.attempted = <<>>,
                   !.skipped = {idx \in Peers(health) : should_skip(health, idx)},
                   !.pass_done = FALSE, !.passes = @ + 1], health)

dial_loop_top ==
    /\ dial.pc = "top"
    /\ dial.passes < MaxPasses
    /\ dial' = LoopTop
    /\ UNCHANGED <<mgrVars, tcpVars, udpVars, healthVars, calcVars>>

\* The in-flight connect completes before the next poll: with a stream, with an error of
\* socket::connect, or (fail-fast) with the timeout of failfast_timeout_ms.
connect_done(res) ==
    /\ dial.pc = "connecting"
    /\ res = "TimedOut" => dial.failfast
    /\ IF res = "ok"
       THEN /\ dial' = [dial EXCEPT !.pc = "done", !.remote = <<dial.cur>>, !.pass_done = TRUE,
                                      !.result = "relay",
                                      !.backend = Append(@, selected_raddr(<<dial.cur>>))]
            /\ health' = IF is_failover(dial) THEN mark_ok(health, dial.cur) ELSE health
            /\ hist' = IF is_failover(dial)
                       THEN [hist EXCEPT ![dial.cur] = [kind |-> "ok", at |-> health.now,
                                                        k |-> 0]]
                       ELSE hist
       ELSE ConnectFailed(res)
    /\ UNCHANGED <<mgrVars, tcpVars, udpVars, calcVars>>

\* The 100 ms sleep of connect_with_local_cancel completes first: the task is now in the
\* peek of local_is_closed, and the connect is not polled meanwhile.
dial_poll ==
    /\ dial.pc = "connecting"
    /\ dial' = [dial EXCEPT !.pc = "peek"]
    /\ UNCHANGED <<mgrVars, tcpVars, udpVars, healthVars, calcVars>>

\* The peek completes: the connect goes on, or is dropped with Err(BrokenPipe), which is
\* the connect_res of this candidate.
dial_peek ==
    /\ dial.pc = "peek"
    /\ IF local_is_closed(dial)
       THEN LET h == IF is_failover(dial) THEN mark_fail(health, dial.cur) ELSE health IN
            /\ health' = h
            /\ hist' = IF is_failover(dial)
                       THEN [hist EXCEPT ![dial.cur] = [kind |-> "fail", at |-> health.now,
                                                        k |-> @.k + 1]]
                       ELSE hist
            /\ dial' = NextAttempt([dial EXCEPT !.last_err = "BrokenPipe",
                                                 !.cancelled = TRUE], h)
       ELSE /\ dial' = [dial EXCEPT !.pc = "connecting"]
            /\ UNCHANGED healthVars
    /\ UNCHANGED <<mgrVars, tcpVars, udpVars, calcVars>>

\* tokio::time::sleep(retry_sleep_ms) is over.
dial_retry_wake ==
    /\ dial.pc = "sleep"
    /\ health.now >= dial.wake
    /\ dial' = [dial EXCEPT !.pc = "top"]
    /\ UNCHANGED <<mgrVars, tcpVars, udpVars, healthVars, calcVars>>

InitDialSpec == InitWith(FALSE, "off") /\ InitTcp(FALSE) /\ IdleUdp /\ InitHealth(DialPeers) /\ InitDial /\ IdleCalc

NextDial ==
    \/ dial_begin
    \/ client_sends
    \/ client_closes
    \/ dial_loop_top
    \/ \E res \in {"ok", "ConnectionRefused", "TimedOut"} : connect_done(res)
    \/ dial_poll
    \/ dial_peek
    \/ dial_retry_wake
    \/ clock_tick

SpecDial == InitDialSpec /\ [][NextDial]_vars

\* The connect loop with its retry window, followed to its end.  Every connect returns, the
\* timers fire and time advances: a pass, with the sleep or the yield before it, takes a
\* millisecond at least.  The connection is accepted when the health object is created,
\* so that the retry window ends within MaxNow.
MaxRetryPasses == 3

dial_begin_at_start == health.now = 0 /\ dial_begin

dial_loop_top_timed ==
    /\ dial.pc = "top"
    /\ dial.passes < MaxRetryPasses
    /\ health.now >= dial.start + dial.passes
    /\ dial' = LoopTop
    /\ UNCHANGED <<mgrVars, tcpVars, udpVars, healthVars, calcVars>>

NextRetry ==
    \/ dial_begin_at_start
    \/ client_sends
    \/ client_closes
    \/ dial_loop_top_timed
    \/ \E res \in {"ok", "ConnectionRefused", "TimedOut"} : connect_done(res)
    \/ dial_poll
    \/ dial_peek
    \/ dial_retry_wake
    \/ clock_tick

SpecRetry ==
    /\ InitDialSpec /\ [][NextRetry]_vars
    /\ WF_vars(dial_loop_top_timed) /\ WF_vars(dial_peek) /\ WF_vars(dial_retry_wake)
    /\ WF_vars(clock_tick)
    /\ SF_vars(\E res \in {"ok", "ConnectionRefused", "TimedOut"} : connect_done(res))

\* The connect loop next to the probe task of a failover endpoint, which marks the peers
\* from its own connects (probe_one).
MaxProbeFails == 1

probe_one(idx) ==
    /\ is_failover(dial)
    /\ \/ call_mark_ok(idx)
       \/ hist[idx].k < MaxProbeFails /\ call_mark_fail(idx)

NextProbedDial ==
    \/ NextDial
    \/ \E idx \in Peers(health) : probe_one(idx)

\* The endpoint's backoff is kept at one pair of values here: the fail-fast decision reads
\* last_ok_ms and ok_ttl_ms only.
InitProbedDial ==
    /\ InitDialSpec
    /\ health.backoff_base_ms = U64(1) /\ health.backoff_max_ms = U64(2)

SpecProbedDial == InitProbedDial /\ [][NextProbedDial]_vars

\* ---- Registry::group_by_addr (udp/middle.rs) ----

MaxPackets == 4

Addrs == {"a", "b", "c"}

\* The batches recv_some may deliver: n packets, 1 <= n <= MaxPackets, each with its source
\* address; seq is the position at which the packet was received.
Batches ==
    UNION {{[k \in 1..n |-> [addr |-> f[k], seq |-> k]] : f \in [1..n -> Addrs]} :
           n \in 1..MaxPackets}

\* slice::swap on the 0-based indices i and j.
swap(data, i, j) ==
    [data EXCEPT ![i + 1] = data[j + 1], ![j + 1] = data[i + 1]]

\* |a, b| a.addr == b.addr on the 0-based indices i and j.
eq(data, i, j) == data[i + 1].addr = data[j + 1].addr

\* group_by_addr has cleared the groups and entered group_by_inner.
InitRegistrySpec ==
    \E data \in Batches :
        registry = [pc |-> "outer", data |-> data, groups |-> <<>>, beg |-> 0, end |-> 1,
                    probe |-> 0]

\* One test of the outer while: go ahead on an equal address, else start probing; after the
\* loop the last group is pushed.
group_by_outer ==
    /\ registry.pc = "outer"
    /\ LET r == registry
           maxn == Len(r.data) IN
       registry' =
          IF r.end < maxn
          THEN IF eq(r.data, r.end, r.beg)
               THEN [r EXCEPT !.end = r.end + 1]
               ELSE [r EXCEPT !.probe = r.end + 1, !.pc = "probe"]
          ELSE [r EXCEPT !.groups = Append(r.groups, <<r.beg, r.end>>), !.pc = "done"]
    /\ UNCHANGED <<mgrVars, tcpVars, udpVars, healthVars, dialVars, route, build, idreq, fopts, taskVars>>

\* One test of the inner while: a packet of the group's address found afterwards is
\* swapped to the end of the group; after the loop the group is pushed and the next begins.
group_by_probe ==
    /\ registry.pc = "probe"
    /\ LET r == registry
           maxn == Len(r.data) IN
       registry' =
          IF r.probe < maxn
          THEN IF eq(r.data, r.probe, r.beg)
               THEN [r EXCEPT !.data = swap(r.data, r.probe, r.end), !.end = r.end + 1,
                              !.probe = r.probe + 1]
               ELSE [r EXCEPT !.probe = r.probe + 1]
          ELSE [r EXCEPT !.groups = Append(r.groups, <<r.beg, r.end>>),
                         !.beg = r.end, !.end = r.end + 1, !.pc = "outer"]
    /\ UNCHANGED <<mgrVars, tcpVars, udpVars, healthVars, dialVars, route, build, idreq, fopts, taskVars>>

InitGroup ==
    /\ InitWith(FALSE, "off") /\ InitTcp(FALSE) /\ IdleUdp /\ IdleHealth /\ IdleDial
    /\ InitRegistrySpec /\ route = NoRoute /\ build = NoBuild /\ idreq = NoIdReq
    /\ fopts = NoOpts /\ IdleTasks

NextGroup == group_by_outer \/ group_by_probe

SpecGroup == InitGroup /\ [][NextGroup]_vars

\* ---- GET /instances/{id}/route for a failover instance (api.rs) ----

RoutePeers == 2
MaxRouteFails == 2

\* FailoverHealth::peer_snapshot: Some(snapshot), here <<snapshot>>, or None, <<>>.
peer_snapshot(h, idx) ==
    IF idx \in DOMAIN h.peers
    THEN LET peer == h.peers[idx] IN
         <<[down_until_ms |-> peer.down_until_ms, last_ok_ms |-> peer.last_ok_ms,
            fail_count |-> peer.fail_count,
            should_skip |-> Lt(now_ms(h), peer.down_until_ms),
            ok_recent |-> /\ peer.last_ok_ms /= U64(0)
                          /\ Le(saturating_sub(now_ms(h), peer.last_ok_ms), h.ok_ttl_ms)]>>
    ELSE <<>>

\* A handler that would report a peer with failures as unhealthy before looking at its
\* backoff.
route_backend_failures_first(i, snap) ==
    [role |-> IF i = 0 THEN "primary" ELSE "backup",
     state |-> IF snap = <<>> THEN "unknown"
               ELSE IF snap[1].fail_count > 0 THEN "unhealthy"
               ELSE IF snap[1].should_skip THEN "backoff"
               ELSE IF snap[1].ok_recent THEN "healthy"
               ELSE "unknown",
     backoff_until_ms |-> IF snap # <<>> /\ snap[1].should_skip
                          THEN <<snap[1].down_until_ms>> ELSE <<>>,
     ok_recent |-> snap # <<>> /\ snap[1].ok_recent]

\* The InstanceRouteBackend pushed for backend i: match snap { .. }.
route_backend(i, snap) ==
    [role |-> IF i = 0 THEN "primary" ELSE "backup",
     state |-> IF snap = <<>> THEN "unknown"
               ELSE IF snap[1].should_skip THEN "backoff"
               ELSE IF snap[1].ok_recent THEN "healthy"
               ELSE IF snap[1].fail_count > 0 THEN "unhealthy"
               ELSE "unknown",
     backoff_until_ms |-> IF snap # <<>> /\ snap[1].should_skip
                          THEN <<snap[1].down_until_ms>> ELSE <<>>,
     ok_recent |-> snap # <<>> /\ snap[1].ok_recent]

\* The handler has cloned the config (strategy failover, addrs = remote and the extra
\* remotes) and found a health object in the stats.
get_instance_route(n) ==
    /\ route.pc \in {"none", "done"}
    /\ route' = [NoRoute EXCEPT !.pc = "loop", !.addrs = n]
    /\ UNCHANGED <<mgrVars, tcpVars, udpVars, healthVars, dialVars, registry, build, idreq, fopts, taskVars>>

\* One iteration of the loop over addrs: the snapshot of the peer, its backend entry, and
\* preferred_backend if none is chosen yet and the peer is not in backoff.
get_instance_route_peer ==
    /\ route.pc = "loop" /\ route.i < route.addrs
    /\ LET snap == peer_snapshot(health, route.i) IN
       route' = [route EXCEPT
                   !.snaps = Append(@, snap),
                   !.backends = Append(@, route_backend(route.i, snap)),
                   !.preferred_backend =
                        IF @ = <<>> /\ (snap = <<>> \/ ~snap[1].should_skip)
                        THEN <<route.i>> ELSE @,
                   !.i = @ + 1]
    /\ UNCHANGED <<mgrVars, tcpVars, udpVars, healthVars, dialVars, registry, build, idreq, fopts, taskVars>>

\* After the loop: the primary when no backend was chosen; the response is sent.
get_instance_route_respond ==
    /\ route.pc = "loop" /\ route.i = route.addrs
    /\ route' = [route EXCEPT
                   !.preferred_backend = IF @ = <<>> /\ route.addrs > 0 THEN <<0>> ELSE @,
                   !.pc = "done"]
    /\ UNCHANGED <<mgrVars, tcpVars, udpVars, healthVars, dialVars, registry, build, idreq, fopts, taskVars>>

InitRoute ==
    /\ InitWith(FALSE, "off") /\ InitTcp(FALSE) /\ IdleUdp /\ InitHealth(RoutePeers)
    /\ IdleDial /\ IdleCalc

\* The handler runs while connections mark the peers and time passes.
NextRoute ==
    \/ \E n \in {RoutePeers, RoutePeers + 1} : get_instance_route(n)
    \/ get_instance_route_peer
    \/ get_instance_route_respond
    \/ \E idx \in Peers(health) : call_mark_ok(idx)
    \/ \E idx \in Peers(health) : hist[idx].k < MaxRouteFails /\ call_mark_fail(idx)
    \/ clock_tick

SpecRoute == InitRoute /\ [][NextRoute]_vars

\* ---- EndpointConf::try_build_balancer and the endpoint built from it ----

MaxWeights == 3

\* The number of extra_remotes of a config; Failover::new asserts at most 255 weights.
ExtraCounts == {0, 1, 2, 255}

\* The items of the weight list of `balance`; an item that is not a u8 does not parse.
WeightItems == {0, 1, 2, 256}

\* The strategy part of `balance`, trimmed and lower-cased; <<>> when balance is None.
BalanceStrategies == {<<>>, <<"off">>, <<"failover">>, <<"bogus">>}

EndpointConfs ==
    [balance : BalanceStrategies, extra_remotes : ExtraCounts,
     weights : UNION {[1 .. n -> WeightItems] : n \in 0 .. MaxWeights}]

\* parsed_weights[1..].iter().copied().max().unwrap_or(0)
backup_max(parsed_weights) ==
    IF Len(parsed_weights) <= 1 THEN 0
    ELSE CHOOSE w \in {parsed_weights[k] : k \in 2 .. Len(parsed_weights)} :
            \A k \in 2 .. Len(parsed_weights) : parsed_weights[k] <= w

\* Balancer::new: Failover::new asserts weights.len() <= u8::MAX and keeps the length as u8.
Balancer_new(strategy, weights) ==
    IF strategy = "off" THEN [res |-> "ok", strategy |-> "off", total |-> 0]
    ELSE IF Len(weights) <= 255
    THEN [res |-> "ok", strategy |-> strategy, total |-> Len(weights) % 256]
    ELSE [res |-> "panic", strategy |-> strategy, total |-> 0]

InvalidBalance == [res |-> "InvalidBalance", strategy |-> "none", total |-> 0]

\* A build that would take the explicit weights of a failover balance as they come.
try_build_balancer_unchecked(c) ==
    IF c.balance = <<>> THEN Balancer_new("off", <<>>)
    ELSE IF c.balance[1] \notin {"off", "failover"} THEN InvalidBalance
    ELSE IF \E k \in 1 .. Len(c.weights) : c.weights[k] \notin 0 .. 255 THEN InvalidBalance
    ELSE IF c.balance[1] = "failover" /\ c.weights = <<>>
    THEN Balancer_new("failover", [k \in 1 .. 1 + c.extra_remotes |-> 1])
    ELSE Balancer_new(c.balance[1], c.weights)

\* EndpointConf::try_build_balancer (the strategies iphash and roundrobin left out).
try_build_balancer(c) ==
    IF c.balance = <<>> THEN Balancer_new("off", <<>>)
    ELSE IF c.balance[1] \notin {"off", "failover"} THEN InvalidBalance
    ELSE IF \E k \in 1 .. Len(c.weights) : c.weights[k] \notin 0 .. 255 THEN InvalidBalance
    ELSE IF c.balance[1] = "failover"
    THEN LET expected == 1 + c.extra_remotes IN
         IF c.weights = <<>>
         THEN Balancer_new("failover", [k \in 1 .. expected |-> 1])
         ELSE IF Len(c.weights) # expected THEN InvalidBalance
         ELSE IF c.weights[1] < backup_max(c.weights) THEN InvalidBalance
         ELSE Balancer_new("failover", c.weights)
    ELSE Balancer_new(c.balance[1], c.weights)

\* Balancer::candidates: the tokens to try, in order.
candidates(balancer) ==
    IF balancer.strategy = "failover" /\ balancer.total # 0
    THEN [k \in 1 .. balancer.total |-> k - 1]
    ELSE <<0>>

\* An EndpointConf whose addresses are valid is about to be built.
InitBuild ==
    \E c \in EndpointConfs : build = [pc |-> "conf", conf |-> c]

\* try_build: the balancer is built, or the build is rejected, or it panics.
try_build_endpoint ==
    /\ build.pc = "conf"
    /\ LET b == try_build_balancer(build.conf) IN
       build' = [pc |-> IF b.res = "ok" THEN "built" ELSE b.res, conf |-> build.conf,
                 balancer |-> b]
    /\ UNCHANGED <<mgrVars, tcpVars, udpVars, healthVars, dialVars, registry, route, idreq, fopts, taskVars>>

\* run_tcp_inner creates the FailoverHealth of a failover endpoint, and a connection asks
\* the balancer for its candidates.
run_tcp_endpoint ==
    /\ build.pc = "built"
    /\ build' = [pc |-> "running", conf |-> build.conf, balancer |-> build.balancer,
                 tokens |-> candidates(build.balancer),
                 peer_count |-> IF build.balancer.strategy = "failover"
                                THEN <<1 + build.conf.extra_remotes>> ELSE <<>>]
    /\ UNCHANGED <<mgrVars, tcpVars, udpVars, healthVars, dialVars, registry, route, idreq, fopts, taskVars>>

InitBuildSpec ==
    /\ InitWith(FALSE, "off") /\ InitTcp(FALSE) /\ IdleUdp /\ IdleHealth /\ IdleDial
    /\ registry = NoRegistry /\ route = NoRoute /\ InitBuild /\ idreq = NoIdReq
    /\ fopts = NoOpts /\ IdleTasks

NextBuild == try_build_endpoint \/ run_tcp_endpoint

SpecBuild == InitBuildSpec /\ [][NextBuild]_vars

\* ---- the id of POST /instances ----

\* A text is a sequence of runs, a run being n copies of one character, so that texts
\* around the length limit are at hand.  "e2" stands for a character of two bytes.
IdChars == {"a", " ", "/", "\\", "e2"}

RunLens == {1, 255, 256}

MaxRuns == 3

MaxIdLen == 256

Texts == UNION {[1 .. n -> [ch : IdChars, n : RunLens]] : n \in 0 .. MaxRuns}

is_whitespace(ch) == ch = " "

utf8_len(ch) == IF ch = "e2" THEN 2 ELSE 1

RECURSIVE trim_start(_)
trim_start(s) ==
    IF s # <<>> /\ is_whitespace(Head(s).ch) THEN trim_start(Tail(s)) ELSE s

RECURSIVE trim_end(_)
trim_end(s) ==
    IF s # <<>> /\ is_whitespace(s[Len(s)].ch)
    THEN trim_end(SubSeq(s, 1, Len(s) - 1)) ELSE s

\* str::trim
trim(s) == trim_end(trim_start(s))

\* str::len: the length in bytes
RECURSIVE len(_)
len(s) == IF s = <<>> THEN 0 ELSE utf8_len(Head(s).ch) * Head(s).n + len(Tail(s))

\* str::chars().count()
RECURSIVE chars_count(_)
chars_count(s) == IF s = <<>> THEN 0 ELSE Head(s).n + chars_count(Tail(s))

\* str::contains(char), chars().any(..)
contains(s, chs) == \E k \in 1 .. Len(s) : s[k].ch \in chs

\* The checks of validate_instance_id, which it applies to the trimmed id.
validate_instance_id_checks(id) ==
    IF id = <<>> THEN <<"id must not be empty">>
    ELSE IF len(id) > MaxIdLen THEN <<"id too long (max 256)">>
    ELSE IF contains(id, {ch \in IdChars : is_whitespace(ch)})
    THEN <<"id must not contain whitespace">>
    ELSE IF contains(id, {"/", "\\"}) THEN <<"id must not contain path separators">>
    ELSE <<>>

\* validate_instance_id: <<>> is Ok(()), <<e>> is Err(e).
validate_instance_id(id) == validate_instance_id_checks(trim(id))

\* Uuid::new_v4().to_string(): 36 characters, hexadecimal digits and hyphens
Uuid == <<[ch |-> "a", n |-> 36]>>

Text(ch, n) == <<[ch |-> ch, n |-> n]>>

\* The requests: id and external_id are Options (<<>> is None), config_ok tells whether
\* the config of the request builds.
CreateInstanceRequests ==
    [id : {<<>>} \cup {<<t>> : t \in Texts},
     external_id : {<<>>, <<Text("a", 1)>>, <<Text(" ", 1) \o Text("a", 1)>>},
     config_ok : BOOLEAN]

\* Option::or
or(a, b) == IF a # <<>> THEN a ELSE b

InitIdReq ==
    \E r \in CreateInstanceRequests, keys \in {{}, {Text("a", 1)}} :
        idreq = [pc |-> "request", req |-> r, keys |-> keys]

\* create_instance, as far as the id goes: the checks in their order, then the key under
\* which the instance is inserted (201) or replaced (200).
create_instance_request ==
    /\ idreq.pc = "request"
    /\ LET r == idreq.req
           id == or(r.id, r.external_id)
           Reject(error) == [pc |-> "done", req |-> r, keys |-> idreq.keys,
                             code |-> "400", error |-> error]
           Store(key) == [pc |-> "done", req |-> r, keys |-> idreq.keys \cup {key},
                          code |-> IF key \in idreq.keys THEN "200" ELSE "201",
                          error |-> "none"]
       IN  idreq' =
             IF r.id # <<>> /\ r.external_id # <<>> /\ r.id # r.external_id
             THEN Reject("invalid_id")
             ELSE IF ~r.config_ok THEN Reject("invalid_config")
             ELSE IF id = <<>> THEN Store(Uuid)
             ELSE IF validate_instance_id(id[1]) # <<>> THEN Reject("invalid_id")
             ELSE Store(id[1])
    /\ UNCHANGED <<mgrVars, tcpVars, udpVars, healthVars, dialVars, registry, route, build, fopts, taskVars>>

InitIdSpec ==
    /\ InitWith(FALSE, "off") /\ InitTcp(FALSE) /\ IdleUdp /\ IdleHealth /\ IdleDial
    /\ registry = NoRegistry /\ route = NoRoute /\ build = NoBuild /\ InitIdReq
    /\ fopts = NoOpts /\ IdleTasks

NextId == create_instance_request

SpecId == InitIdSpec /\ [][NextId]_vars

\* ---- FailoverOpts::sanitize ----

MaxSanitizeCalls == 3

\* Field values in milliseconds: zero, below, inside and above the range of the field.
\* The values fit the integers of the checker; sanitize only compares them.
ProbeIntervals == {0, 199, 2000, 60001}

ProbeTimeouts == {0, 49, 200, 10001}

FailfastValues == {0, 49, 250, 10001}

OkTtlValues == {0, 199, 6000, 120001}

BackoffBaseValues == {0, 49, 150, 10001, 600001}

BackoffMaxValues == {0, 99, 120, 30000, 600001}

RetryWindowValues == {0, 5, 600001}

RetrySleepValues == {0, 9, 200, 10001}

FailoverOptsRecords ==
    [probe_interval_ms : ProbeIntervals, probe_timeout_ms : ProbeTimeouts,
     failfast_timeout_ms : FailfastValues, ok_ttl_ms : OkTtlValues,
     backoff_base_ms : BackoffBaseValues, backoff_max_ms : BackoffMaxValues,
     retry_window_ms : RetryWindowValues, retry_sleep_ms : RetrySleepValues]

\* u64::clamp, u64::min, u64::max
clamp(v, min, max) == IF v < min THEN min ELSE IF v > max THEN max ELSE v

min_u64(a, b) == IF a < b THEN a ELSE b

max_u64(a, b) == IF a > b THEN a ELSE b

\* The inner fn clamp_nonzero of sanitize.
clamp_nonzero(v, min, max) == IF v = 0 THEN v ELSE clamp(v, min, max)

\* A sanitize that would raise backoff_max_ms to the base before clamping the base.
sanitize_raising_before_clamp(o) ==
    LET max1 == clamp_nonzero(o.backoff_max_ms, 100, 600000)
        max2 == IF max1 > 0 /\ o.backoff_base_ms > 0
                THEN max_u64(max1, o.backoff_base_ms) ELSE max1
        window == min_u64(o.retry_window_ms, 600000)
    IN  [probe_interval_ms |-> clamp_nonzero(o.probe_interval_ms, 200, 60000),
         probe_timeout_ms |-> clamp_nonzero(o.probe_timeout_ms, 50, 10000),
         failfast_timeout_ms |-> clamp_nonzero(o.failfast_timeout_ms, 50, 10000),
         ok_ttl_ms |-> clamp_nonzero(o.ok_ttl_ms, 200, 120000),
         backoff_base_ms |-> clamp_nonzero(o.backoff_base_ms, 50, 10000),
         backoff_max_ms |-> max2,
         retry_window_ms |-> window,
         retry_sleep_ms |-> IF window > 0 THEN clamp(o.retry_sleep_ms, 10, 10000)
                            ELSE o.retry_sleep_ms]

\* FailoverOpts::sanitize
sanitize(o) ==
    LET base == clamp_nonzero(o.backoff_base_ms, 50, 10000)
        max1 == clamp_nonzero(o.backoff_max_ms, 100, 600000)
        max2 == IF max1 > 0 /\ base > 0 THEN max_u64(max1, base) ELSE max1
        window == min_u64(o.retry_window_ms, 600000)
    IN  [probe_interval_ms |-> clamp_nonzero(o.probe_interval_ms, 200, 60000),
         probe_timeout_ms |-> clamp_nonzero(o.probe_timeout_ms, 50, 10000),
         failfast_timeout_ms |-> clamp_nonzero(o.failfast_timeout_ms, 50, 10000),
         ok_ttl_ms |-> clamp_nonzero(o.ok_ttl_ms, 200, 120000),
         backoff_base_ms |-> base,
         backoff_max_ms |-> max2,
         retry_window_ms |-> window,
         retry_sleep_ms |-> IF window > 0 THEN clamp(o.retry_sleep_ms, 10, 10000)
                            ELSE o.retry_sleep_ms]

InitOpts == \E o \in FailoverOptsRecords : fopts = [calls |-> 0, opts |-> o]

\* opts.sanitize()
sanitize_call ==
    /\ fopts.calls < MaxSanitizeCalls
    /\ fopts' = [calls |-> fopts.calls + 1, opts |-> sanitize(fopts.opts)]
    /\ UNCHANGED <<mgrVars, tcpVars, udpVars, healthVars, dialVars, registry, route, build,
                   idreq, taskVars>>

InitSanitize ==
    /\ InitWith(FALSE, "off") /\ InitTcp(FALSE) /\ IdleUdp /\ IdleHealth /\ IdleDial
    /\ registry = NoRegistry /\ route = NoRoute /\ build = NoBuild /\ idreq = NoIdReq
    /\ InitOpts /\ IdleTasks

NextSanitize == sanitize_call

SpecSanitize == InitSanitize /\ [][NextSanitize]_vars

\* ---- the probing task of a failover endpoint (run_tcp_inner, tcp/mod.rs) ----
\* The task is spawned before the bind.  It holds the receiver of a oneshot channel whose
\* sender is a local of run_tcp_inner: the receiver becomes ready when run_tcp_inner has
\* returned or its future has been dropped by an abort.  select! polls its ready branches
\* in no fixed order; the first tick of the interval is ready at once, a later one when
\* the interval has passed, also during a round.

MaxRounds == 2

ProbeIntervalsMs == {0, 1}

\* The stop receiver is ready: the sender is gone with run_tcp_inner.
probe_stop_ready == lis # "listening"

\* tokio::spawn of the probing task, or no task; the bind has succeeded or failed.
InitProbe ==
    \E strategy \in Strategies, itv \in ProbeIntervalsMs :
        /\ lis \in {"listening", "ended"}
        /\ IF strategy = "failover" THEN InitHealth(HealthPeers) ELSE IdleHealth
        /\ probe = IF strategy = "failover" /\ itv > 0
                   THEN [pc |-> "warmup", strategy |-> strategy, probe_interval_ms |-> itv,
                         pending |-> 0 .. HealthPeers - 1, tick |-> FALSE, rounds |-> 0,
                         after_stop |-> FALSE]
                   ELSE [pc |-> "none", strategy |-> strategy, probe_interval_ms |-> itv]

\* probe_one of a peer of the round completes: mark_ok or mark_fail.  The round is over
\* with its last probe; after the warm-up round the interval is created.
probe_one_done(idx, ok) ==
    /\ probe.pc \in {"warmup", "round"}
    /\ idx \in probe.pending
    /\ health' = IF ok THEN mark_ok(health, idx) ELSE mark_fail(health, idx)
    /\ hist' = [hist EXCEPT ![idx] = IF ok THEN [kind |-> "ok", at |-> health.now, k |-> 0]
                                      ELSE [kind |-> "fail", at |-> health.now, k |-> @.k + 1]]
    /\ probe' = [probe EXCEPT !.pending = @ \ {idx},
                              !.pc = IF probe.pending = {idx} THEN "select" ELSE @,
                              !.tick = @ \/ (probe.pc = "warmup" /\ probe.pending = {idx})]
    /\ UNCHANGED <<mgrVars, tcpVars, udpVars, dialVars, pureVars, sess, marks>>

\* The interval has passed: its next tick is ready.
interval_elapses ==
    /\ probe.pc \in {"round", "select"}
    /\ ~probe.tick
    /\ probe' = [probe EXCEPT !.tick = TRUE]
    /\ UNCHANGED <<mgrVars, tcpVars, udpVars, healthVars, dialVars, pureVars, sess, marks>>

\* select! takes the tick: the next round begins.
probe_select_tick ==
    /\ probe.pc = "select"
    /\ probe.tick
    /\ probe.rounds < MaxRounds
    /\ probe' = [probe EXCEPT !.pc = "round", !.tick = FALSE, !.rounds = @ + 1,
                              !.pending = 0 .. HealthPeers - 1,
                              !.after_stop = probe_stop_ready]
    /\ UNCHANGED <<mgrVars, tcpVars, udpVars, healthVars, dialVars, pureVars, sess, marks>>

\* select! takes the stop receiver: break, the task ends.
probe_select_stop ==
    /\ probe.pc = "select"
    /\ probe_stop_ready
    /\ probe' = [probe EXCEPT !.pc = "exited"]
    /\ UNCHANGED <<mgrVars, tcpVars, udpVars, healthVars, dialVars, pureVars, sess, marks>>

InitProbeSpec ==
    /\ InitWith(FALSE, "off") /\ keepalive = FALSE /\ conn = [c \in ConnIds |-> NoConn]
    /\ stats = NoStats /\ calls = [c \in ConnIds |-> NoCalls]
    /\ IdleUdp /\ IdleDial
    /\ registry = NoRegistry /\ route = NoRoute /\ build = NoBuild /\ idreq = NoIdReq
    /\ fopts = NoOpts /\ sess = NoSess /\ marks = NoMarks
    /\ InitProbe

NextProbe ==
    \/ \E idx \in 0 .. HealthPeers - 1, ok \in BOOLEAN : probe_one_done(idx, ok)
    \/ interval_elapses
    \/ probe_select_tick
    \/ probe_select_stop
    \/ accept_error
    \/ abort_listener
    \/ probe.strategy = "failover" /\ clock_tick

SpecProbe ==
    /\ InitProbeSpec /\ [][NextProbe]_vars
    /\ WF_vars(\E idx \in 0 .. HealthPeers - 1, ok \in BOOLEAN : probe_one_done(idx, ok))
    /\ SF_vars(probe_select_stop)

\* ---- the UDP sessions of one instance over its runs (udp/middle.rs, api.rs) ----
\* A run is one run_udp_inner task with its own SockMap and run guard; the observer of
\* every run is the instance's one InstanceStats, whose udp_sessions is keyed by source.
MaxUdpRuns == 2
MaxOpens == 3

\* Source addresses of clients.
Sources == {1, 2}

\* The starter has spawned the first run, which has bound its socket.
InitSess ==
    sess = [run |-> 1, alive |-> TRUE, sockmap |-> {}, udp_sessions |-> {}, tasks |-> {},
            opens |-> 0]

\* clear_runtime_state, of which udp_sessions is the part kept here.
clear_runtime_state(s) == [s EXCEPT !.udp_sessions = {}]

\* on_session_open(peer) and on_session_close(peer) of the UdpObserver.
on_session_open(s, peer) == [s EXCEPT !.udp_sessions = @ \cup {peer}]
on_session_close(s, peer) == [s EXCEPT !.udp_sessions = @ \ {peer}]

\* associate_and_relay gets a datagram of a source that is not in the run's SockMap:
\* find_or_insert runs the closure, which calls on_session_open and spawns send_back.
associate_and_relay(src) ==
    /\ sess.alive
    /\ sess.opens < MaxOpens
    /\ src \notin sess.sockmap
    /\ sess' = [on_session_open(sess, src) EXCEPT
                   !.sockmap = @ \cup {src},
                   !.opens = @ + 1,
                   !.tasks = @ \cup {[run |-> sess.run, src |-> src, pc |-> "select",
                                      n |-> sess.opens + 1]}]
    /\ UNCHANGED <<mgrVars, tcpVars, udpVars, healthVars, dialVars, pureVars, probe, marks>>

\* stop_instance: the endpoint task is aborted, which drops its run guard, and the runtime
\* state is cleared.
stop_udp_run ==
    /\ sess.alive
    /\ sess' = [clear_runtime_state(sess) EXCEPT !.alive = FALSE, !.sockmap = {}]
    /\ UNCHANGED <<mgrVars, tcpVars, udpVars, healthVars, dialVars, pureVars, probe, marks>>

\* start_instance on the stopped instance, or restart_instance on the running one (abort,
\* clear_runtime_state), and the starter: the next run, with a new SockMap and run guard.
start_udp_run ==
    /\ sess.run < MaxUdpRuns
    /\ sess' = [clear_runtime_state(sess) EXCEPT !.alive = TRUE, !.run = @ + 1, !.sockmap = {}]
    /\ UNCHANGED <<mgrVars, tcpVars, udpVars, healthVars, dialVars, pureVars, probe, marks>>

\* The loop of send_back breaks: on the tick that finds the run guard gone, on the
\* associate timeout, or on an error of recv or send.
send_back_break(t) ==
    /\ t \in sess.tasks
    /\ t.pc = "select"
    /\ sess' = [sess EXCEPT !.tasks = (@ \ {t}) \cup {[t EXCEPT !.pc = "break"]}]
    /\ UNCHANGED <<mgrVars, tcpVars, udpVars, healthVars, dialVars, pureVars, probe, marks>>

\* sockmap.remove(&laddr), on the SockMap of the task's own run.
send_back_remove(t) ==
    /\ t \in sess.tasks
    /\ t.pc = "break"
    /\ sess' = [sess EXCEPT !.tasks = (@ \ {t}) \cup {[t EXCEPT !.pc = "removed"]},
                            !.sockmap = IF t.run = sess.run THEN @ \ {t.src} ELSE @]
    /\ UNCHANGED <<mgrVars, tcpVars, udpVars, healthVars, dialVars, pureVars, probe, marks>>

\* obs.on_session_close(laddr), after which the task is over.
send_back_close(t) ==
    /\ t \in sess.tasks
    /\ t.pc = "removed"
    /\ sess' = [on_session_close(sess, t.src) EXCEPT !.tasks = @ \ {t}]
    /\ UNCHANGED <<mgrVars, tcpVars, udpVars, healthVars, dialVars, pureVars, probe, marks>>

ReturnTasks ==
    [run : 1 .. MaxUdpRuns, src : Sources, pc : {"select", "break", "removed"}, n : 1 .. MaxOpens]

InitSessSpec ==
    /\ InitWith(FALSE, "off") /\ InitTcp(FALSE) /\ IdleUdp /\ IdleHealth /\ IdleDial
    /\ registry = NoRegistry /\ route = NoRoute /\ build = NoBuild /\ idreq = NoIdReq
    /\ fopts = NoOpts /\ probe = NoProbe /\ marks = NoMarks
    /\ InitSess

NextSess ==
    \/ \E src \in Sources : associate_and_relay(src)
    \/ stop_udp_run
    \/ start_udp_run
    \/ \E t \in ReturnTasks : send_back_break(t)
    \/ \E t \in ReturnTasks : send_back_remove(t)
    \/ \E t \in ReturnTasks : send_back_close(t)

SpecSess == InitSessSpec /\ [][NextSess]_vars

\* ---- mark_ok and mark_fail store by store (tcp/health.rs) ----
\* The callers of one endpoint's FailoverHealth: a per-connection task and the probing
\* task.  Each call reads the clock once and then does its three Relaxed atomic operations,
\* between any two of which the other caller and the clock may step.
Callers == {"conn", "probe"}
MaxMarks == 3

NoCall == [pc |-> "idle", idx |-> 0, now |-> 0, fail_count |-> 0]

InitMarks == marks = [calls |-> 0, of |-> [c \in Callers |-> NoCall]]

\* The backoff mark_fail computes from the count that fetch_add returned, plus one.
backoff_of(h, fail_count) ==
    LET exp == Min(fail_count, 16)
        shifted == saturating_mul_shl(h.backoff_base_ms, exp)
    IN  IF Lt(h.backoff_max_ms, shifted) THEN h.backoff_max_ms ELSE shifted

\* mark_ok(idx) or mark_fail(idx) is entered: let now = self.now_ms().
mark_begin(c, kind, idx) ==
    /\ marks.of[c].pc = "idle"
    /\ marks.calls < MaxMarks
    /\ marks' = [marks EXCEPT !.calls = @ + 1,
                              !.of[c] = [pc |-> kind, idx |-> idx, now |-> health.now,
                                         fail_count |-> 0]]
    /\ UNCHANGED <<mgrVars, tcpVars, udpVars, healthVars, dialVars, pureVars, probe, sess>>

\* The next store of a mark_ok: last_ok_ms, then down_until_ms, then fail_count.
mark_ok_store(c) ==
    LET m == marks.of[c] IN
    /\ m.pc \in {"ok1", "ok2", "ok3"}
    /\ health' = IF m.pc = "ok1" THEN [health EXCEPT !.peers[m.idx].last_ok_ms = U64(m.now)]
                 ELSE IF m.pc = "ok2" THEN [health EXCEPT !.peers[m.idx].down_until_ms = U64(0)]
                 ELSE [health EXCEPT !.peers[m.idx].fail_count = 0]
    /\ marks' = [marks EXCEPT !.of[c] = IF m.pc = "ok1" THEN [m EXCEPT !.pc = "ok2"]
                                        ELSE IF m.pc = "ok2" THEN [m EXCEPT !.pc = "ok3"]
                                        ELSE NoCall]
    /\ UNCHANGED <<mgrVars, tcpVars, udpVars, hist, dialVars, pureVars, probe, sess>>

\* The next operation of a mark_fail: the store of last_ok_ms, the fetch_add of
\* fail_count, then the store of down_until_ms.
mark_fail_store(c) ==
    LET m == marks.of[c] IN
    /\ m.pc \in {"fail1", "fail2", "fail3"}
    /\ health' = IF m.pc = "fail1" THEN [health EXCEPT !.peers[m.idx].last_ok_ms = U64(0)]
                 ELSE IF m.pc = "fail2" THEN [health EXCEPT !.peers[m.idx].fail_count = @ + 1]
                 ELSE [health EXCEPT !.peers[m.idx].down_until_ms =
                           saturating_add(U64(m.now), backoff_of(health, m.fail_count))]
    /\ marks' = [marks EXCEPT !.of[c] =
                     IF m.pc = "fail1" THEN [m EXCEPT !.pc = "fail2"]
                     ELSE IF m.pc = "fail2"
                     THEN [m EXCEPT !.pc = "fail3",
                                    !.fail_count = health.peers[m.idx].fail_count + 1]
                     ELSE NoCall]
    /\ UNCHANGED <<mgrVars, tcpVars, udpVars, hist, dialVars, pureVars, probe, sess>>

InitMarksSpec ==
    /\ InitWith(FALSE, "off") /\ InitTcp(FALSE) /\ IdleUdp /\ InitHealth(HealthPeers) /\ IdleDial
    /\ registry = NoRegistry /\ route = NoRoute /\ build = NoBuild /\ idreq = NoIdReq
    /\ fopts = NoOpts /\ probe = NoProbe /\ sess = NoSess
    /\ InitMarks

NextMarks ==
    \/ \E c \in Callers, kind \in {"ok1", "fail1"}, idx \in 0 .. HealthPeers - 1 : mark_begin(c, kind, idx)
    \/ \E c \in Callers : mark_ok_store(c)
    \/ \E c \in Callers : mark_fail_store(c)
    \/ clock_tick

SpecMarks == InitMarksSpec /\ [][NextMarks]_vars

\* ---- the claims ----

HasHandle(data) == data.tcp_abort # NoHandle \/ data.udp_abort # NoHandle

\* C1: at every instant where the registry mutex is free, a record that holds an abort
\* handle has status Running, and a record whose status is Stopped or Failed holds none.
C1_HandlesOnlyWhileRunning ==
    \A i \in Ids :
        /\ HasHandle(instances[i]) => instances[i].status = "Running"
        /\ instances[i].status \in {"Stopped", "Failed"} => ~HasHandle(instances[i])

\* C2: a crash watcher whose task was spawned before a later lifecycle operation on its
\* id (stop, restart, update, upsert, delete and re-create) changes neither the status
\* nor the abort handles of the instance, however its task ended.
C2_StaleWatcherChangesNothing ==
    [][\A t \in TaskIds :
          (spawn_endpoint_watcher(t) /\ tasks[t].epoch < epoch[tasks[t].id]) =>
              LET i == tasks[t].id IN
              /\ instances'[i].status = instances[i].status
              /\ instances'[i].tcp_abort = instances[i].tcp_abort
              /\ instances'[i].udp_abort = instances[i].udp_abort]_vars

\* C3: the generation observed for an id never decreases, a delete followed by a new
\* create of the same id included.
C3_GenerationNeverDecreases ==
    [][\A i \in Ids :
          instances'[i].status # "absent" => instances'[i].generation >= lastGen[i]]_vars

StopSucceeds(i) ==
    stop_instance(i) /\ (HasHandle(instances[i]) \/ instances[i].status = "Running")

Completes(op) ==
    /\ finish_lifecycle(op)
    /\ op.kind \in {"upsert", "update", "start", "restart"}
    /\ instances[op.id].status # "absent"

\* C4: a lifecycle mutation of an existing instance that completes successfully (upsert,
\* update, start, stop, restart) leaves the generation strictly greater than it was
\* before the operation.
C4_LifecycleMutationBumpsGeneration ==
    [][/\ \A i \in Ids :
             StopSucceeds(i) => instances'[i].generation > instances[i].generation
       /\ \A op \in ops :
             Completes(op) => instances'[op.id].generation > op.generation - 1]_vars

\* C5: once no handler is in progress and every background save has finished, the
\* instances list of the file equals the registry's table (ids, config, status,
\* auto_start, created_at, updated_at).
C5_FileEqualsRegistryAfterSaves ==
    (persistence /\ served > 0 /\ ops = {} /\ saves = {}) => file = PersistedInstances(instances)

Moved(op) ==
    \/ instances[op.id].status = "absent"
    \/ instances[op.id].generation # op.generation
    \/ born[op.id] > op.epoch

SpawnedBy(op, ts) == {t \in TaskIds : ts[t].id = op.id /\ ts[t].owner = op.epoch}

\* C7: a starter that finds, at entry or when it is about to install a handle, that the
\* generation differs or that the record was deleted, returns an error with every task
\* it spawned aborted; at entry it spawns nothing.
C7_StaleStarterFailsAndAborts ==
    [][\A op \in ops :
          /\ (start_realm_endpoint_entry(op) /\ Moved(op)) =>
                 StarterFailed(op) \in ops' /\ ntasks' = ntasks
          /\ ((start_realm_endpoint_udp(op) \/ start_realm_endpoint_tcp(op)) /\ Moved(op)) =>
                 /\ StarterFailed(op) \in ops'
                 /\ \A t \in SpawnedBy(op, tasks') :
                       tasks'[t].state \notin {"starting", "running"}]_vars

\* C8: once a lifecycle operation has aborted the endpoint, no task of that run relays
\* bytes or calls on_connection_bytes or on_connection_backend.
C8_AbortCancelsConnectionTasks ==
    [][lis = "aborted" =>
          \A c \in ConnIds :
              /\ conn'[c].to_remote = conn[c].to_remote
              /\ conn'[c].to_client = conn[c].to_client
              /\ calls'[c].inbound = calls[c].inbound
              /\ calls'[c].outbound = calls[c].outbound
              /\ calls'[c].backend = calls[c].backend]_vars

\* The accept loop is over and no per-connection task is left.
TcpQuiet == lis # "listening" /\ \A c \in ConnIds : conn[c].pc \in {"none", "done"}

\* C9: every conn_id returned by on_connection_open gets exactly one on_connection_end:
\* never more than one, and one once the accept loop and the connection tasks are over.
C9_OneEndPerOpen ==
    \A c \in ConnIds :
        /\ calls[c].end <= calls[c].open
        /\ TcpQuiet => calls[c].end = calls[c].open

\* C10: for a relayed connection the inbound deltas reported sum to the bytes written
\* toward the backend, and the outbound deltas to the bytes written toward the client.
C10_DeltasFollowTheWire ==
    \A c \in ConnIds :
        /\ calls[c].inbound = conn[c].to_remote
        /\ calls[c].outbound = conn[c].to_client

\* C11: while the UDP endpoint keeps running (its run guard stays alive), an association
\* whose upstream socket has been silent for associate_timeout is eventually ended: the
\* return-path task has left its loop, the source is out of the SockMap and
\* on_session_close has been called for it.
C11_SilentAssociationEnds ==
    ([] assoc.run_guard) =>
        ((assoc.pc = "select" /\ assoc.idle >= timeoutfut(assoc.timeout))
            ~> (assoc.pc = "closed" /\ ~assoc.in_sockmap /\ assoc.closes = 1))

\* C13: for every peer i and every time t, time 0 included: if the most recent health
\* event on peer i is a mark_ok(i) at time t0 and t - t0 <= ok_ttl_ms, then
\* is_recent_ok(i) is true and should_skip(i) is false.
C13_RecentOkIsSeen ==
    \A i \in Peers(health) :
        (hist[i].kind = "ok" /\ Le(U64(health.now - hist[i].at), health.ok_ttl_ms))
            => (is_recent_ok(health, i) /\ ~should_skip(health, i))

\* C14: after k >= 1 consecutive mark_fail(i) calls, counted from the creation of the
\* health object or from the last mark_ok(i), down_until_ms[i] is the time of the k-th call
\* plus min(backoff_base_ms * 2^min(k,16), backoff_max_ms), in saturating arithmetic.
C14_BackoffFormula ==
    \A i \in Peers(health) :
        hist[i].kind = "fail" =>
            LET pow == saturating_mul_shl(health.backoff_base_ms, Min(hist[i].k, 16))
                capped == IF Le(pow, health.backoff_max_ms) THEN pow ELSE health.backoff_max_ms
            IN  health.peers[i].down_until_ms = saturating_add(U64(hist[i].at), capped)

\* More than 16 consecutive failures of a peer, the last one after time 0, with a backoff
\* below backoff_max_ms.
C14_Witness ==
    /\ \E i \in Peers(health) : hist[i].kind = "fail" /\ hist[i].k > 16 /\ hist[i].at > 0
                          /\ Lt(health.peers[i].down_until_ms, health.backoff_max_ms)
    /\ health.backoff_base_ms = U64(1)

\* C15: the stored fail_count of a peer never exceeds 16.
C15_FailCountCapped ==
    \A i \in Peers(health) : health.peers[i].fail_count <= 16

\* C12: if the client closes while a connect is in flight, then at the next 100 ms poll
\* the connect is dropped and the task returns BrokenPipe without starting a connect to
\* any further candidate: once a poll has seen the close, no connect is in flight and the
\* task's result, when it has one, is BrokenPipe.
C12_CloseCancelsConnect ==
    dial.cancelled =>
        (dial.pc \notin {"connecting", "peek"} /\ dial.result \in {"none", "BrokenPipe"})

\* The balancer's candidates without the peers that were in backoff when the pass started,
\* or all of them if all were.
FilteredCandidates ==
    LET out == SelectSeq(dial.candidates, LAMBDA idx : idx \notin dial.skipped)
    IN  IF out = <<>> THEN dial.candidates ELSE out

IsPrefix(s, t) == Len(s) <= Len(t) /\ SubSeq(t, 1, Len(s)) = s

\* C16 as stated: at the end of every candidate pass the list of the peers attempted is
\* non-empty and equals the candidate list with the peers in backoff removed (the full
\* list if every candidate is in backoff).
C16_AttemptedEqualsFiltered ==
    dial.pass_done => (dial.attempted /= <<>> /\ dial.attempted = FilteredCandidates)

\* C16 as amended: the peers attempted in a pass are, in order, a prefix of the candidate
\* list with the peers in backoff at the start of the pass removed (the full list if all
\* were); at the end of the pass the prefix is non-empty, and it is the whole list unless
\* its last peer connected.
C16_AttemptedIsPrefixOfFiltered ==
    /\ dial.pc \notin {"idle", "top"} => IsPrefix(dial.attempted, FilteredCandidates)
    /\ dial.pass_done =>
          /\ dial.attempted /= <<>>
          /\ \/ dial.attempted = FilteredCandidates
             \/ dial.remote = <<dial.attempted[Len(dial.attempted)]>>

\* A pass that ended after attempting the one candidate that was not in backoff.
C16_Witness ==
    /\ dial.pass_done
    /\ dial.skipped /= {}
    /\ dial.attempted = FilteredCandidates
    /\ Len(dial.attempted) < Len(dial.candidates)

\* C17: with the Failover strategy and retry_window_ms = 0 the task attempts a connect to
\* each candidate at most once, and then relays or returns the last error (BrokenPipe
\* when the client had closed before the first attempt).
C17_OnePassWithoutRetryWindow ==
    (is_failover(dial) /\ dial.conf.retry_window_ms = 0) =>
        /\ \A idx \in DOMAIN dial.tried : dial.tried[idx] <= 1
        /\ dial.pc = "done" =>
              \/ dial.result = "relay" /\ dial.remote /= <<>>
              \/ dial.result = dial.last_err /\ dial.attempted /= <<>>
              \/ dial.result = "BrokenPipe" /\ dial.attempted = <<>>

\* Every candidate was attempted once and failed, and the task returned the last error.
C17_Witness ==
    /\ is_failover(dial) /\ dial.conf.retry_window_ms = 0
    /\ dial.pc = "done" /\ dial.result = dial.last_err /\ dial.result /= "BrokenPipe"
    /\ \A idx \in DOMAIN dial.tried : dial.tried[idx] = 1

\* The fields of a record that C18 names.
Kept(data) == <<data.status, data.tcp_abort, data.udp_abort, data.generation, data.config>>

\* C18: with the handlers one at a time, a stop of an instance that is already stopped (no
\* abort handle, status not Running) and a start of an instance that is Running with a
\* handle are answered 409, and leave the record's status, handles, generation and config
\* as they were.
C18_ConflictChangesNothing ==
    [][\A i \in Ids :
          /\ (/\ stop_instance(i)
              /\ ~HasHandle(instances[i]) /\ instances[i].status # "Running")
                => (resp'.code = "409" /\ Kept(instances'[i]) = Kept(instances[i]))
          /\ (/\ start_instance(i)
              /\ HasHandle(instances[i]) /\ instances[i].status = "Running")
                => (resp'.code = "409" /\ Kept(instances'[i]) = Kept(instances[i]))]_vars

\* A start answered 409 on an instance that is Running with a handle.
C18_Witness ==
    /\ resp.code = "409"
    /\ \E i \in Ids : instances[i].status = "Running" /\ HasHandle(instances[i])

C20_BuildFailureFailsAndPersists ==
    [][\A i \in Ids :
          (/\ start_instance(i) \/ restart_instance(i) \/ boot_auto_start(i)
           /\ instances[i].status # "absent" /\ ~try_build(instances[i].config))
            => /\ instances'[i].status = "Failed"
               /\ create_instances_snapshot(instances') \in saves']_vars

\* ---- C21 ----

\* The PersistedInstance start_api_server loaded for an id.
Loaded(i) == CHOOSE p \in persisted_instances : p.id = i

IsLoaded(i) == \E p \in persisted_instances : p.id = i

\* The starter is called for id i in this step of the auto-start loop.
StarterInvokedAtBoot(i) == \E op \in ops' \ ops : op.kind = "boot" /\ op.id = i

\* No request has been handled yet: the state is the work of start_api_server alone.
NoRequestYet == served = 0 /\ \A op \in ops : op.kind = "boot"

\* What restoring does: Failed(msg) comes back as Failed(msg) and is left as restored
\* (Failed, no handles, generation 0) by the boot; Running is Stopped when the auto-start
\* loop has not yet reached the instance.
RestoredAsClaimed(i) ==
    /\ \A m \in Msgs :
          (/\ IsLoaded(i) /\ NoRequestYet
           /\ Loaded(i).status = format_status([status |-> "Failed", msg |-> m]))
            => /\ instances[i].status = "Failed" /\ instances[i].msg = m
               /\ ~HasHandle(instances[i]) /\ instances[i].generation = 0
               /\ i \notin boot /\ \A op \in ops : op.id # i
    /\ (/\ IsLoaded(i) /\ NoRequestYet /\ Loaded(i).status = <<"Running">>
        /\ (i \in boot \/ ~Loaded(i).auto_start))
            => /\ instances[i].status = "Stopped"
               /\ ~HasHandle(instances[i]) /\ instances[i].generation = 0

\* C21 as stated: at boot the starter is invoked exactly for the restored instances with
\* auto_start = true and a restored status other than Failed (every iteration of the
\* auto-start loop calls it); a persisted Failed(msg) is restored as Failed(msg) and the
\* boot leaves it Failed, without handles, its generation unchanged; a persisted Running is
\* restored as Stopped before auto-start.
C21_StarterInvokedExactlyForAutoStart ==
    /\ [](\A i \in Ids : RestoredAsClaimed(i))
    /\ [][\A i \in Ids :
            /\ StarterInvokedAtBoot(i)
                  => i \in auto_start_ids(restored_instances(persisted_instances))
            /\ boot_auto_start(i) => StarterInvokedAtBoot(i)]_vars

\* C21 amended: the starter is invoked exactly for the restored instances with
\* auto_start = true, a status other than Failed and a config that builds; one whose
\* config does not build becomes Failed without the starter being called; the rest as
\* stated.
C21_StarterInvokedForBuildableAutoStart ==
    /\ [](\A i \in Ids : RestoredAsClaimed(i))
    /\ [][\A i \in Ids :
            /\ StarterInvokedAtBoot(i)
                  => /\ i \in auto_start_ids(restored_instances(persisted_instances))
                     /\ try_build(instances[i].config)
            /\ (boot_auto_start(i) /\ try_build(instances[i].config))
                  => StarterInvokedAtBoot(i)
            /\ (boot_auto_start(i) /\ ~try_build(instances[i].config))
                  => ~StarterInvokedAtBoot(i) /\ instances'[i].status = "Failed"]_vars

\* The auto-start loop has called the starter for an instance persisted as Running, which
\* is Stopped with generation 1 while the starter runs.
C21_Witness ==
    \E op \in ops :
        /\ op.kind = "boot" /\ Loaded(op.id).status = <<"Running">>
        /\ instances[op.id].status = "Stopped" /\ instances[op.id].generation = 1

\* ---- C22 ----

\* What a snapshot of a table holds: every record, its handles dropped.
TableAt(table) ==
    [i \in Ids |-> [table[i] EXCEPT !.tcp_abort = NoHandle, !.udp_abort = NoHandle]]

\* C22: every snapshot handed to a save task is the whole instance table as the critical
\* section that spawns the save leaves it (one instant at which that operation holds the
\* registry lock), and every instances list written to the file is the list of one such
\* snapshot: no written file mixes instance states of different instants.
C22_SavedFileIsOneInstant ==
    [][/\ \A snapshot \in saves' \ saves : snapshot = TableAt(instances')
       /\ file' # file
            => \E snapshot \in saves \ saves' : file' = PersistedInstances(snapshot)]_vars

\* The file holds a list written from a snapshot of an earlier instant while the table
\* has moved on and another save is waiting.
C22_Witness ==
    /\ file # {} /\ saves # {}
    /\ file # PersistedInstances(TableAt(instances))

\* ---- C23 ----

\* C23: of two POST /instances for the same id, in any interleaving of their sections, the
\* one that takes the registry lock first answers 201 and the other answers 200 and its
\* config is the one the record holds afterwards; when both have answered there is one
\* record for the id and its generation is at least 2.
C23_SameIdCreationsUpsert ==
    /\ [](\A i \in Ids :
            (epoch[i] = 2 /\ \A op \in ops : op.id # i)
                => instances[i].status # "absent" /\ instances[i].generation >= 2)
    /\ [][\A op \in ops :
            (finish_lifecycle(op) /\ epoch[op.id] <= 2)
                => /\ op.epoch = 1 => resp'.code = "201"
                   /\ op.epoch = 2 => resp'.code = "200"
                   /\ instances'[op.id].config =
                         (IF op.epoch = epoch[op.id] THEN op.config
                          ELSE instances[op.id].config)
                   /\ \A other \in ops \ {op} :
                         (other.id = op.id /\ other.epoch = 2)
                             => instances'[op.id].config = other.config]_vars

\* Both requests are between their two sections and the second is the first to reach its
\* install section.
C23_Witness ==
    \E first \in ops, second \in ops :
        /\ first.id = second.id /\ first.epoch = 1 /\ second.epoch = 2
        /\ first.pc # "final" /\ second.pc = "final"
        /\ instances[first.id].generation = 2

\* ---- C24 ----

\* C24: once the run guard of the UDP endpoint is dropped, the return-path task leaves its
\* loop at its next wake-up (the 500 ms tick at the latest), and it ends: its source is
\* out of the SockMap and on_session_close has been called for it, once and never twice.
C24_GuardDropEndsReturnPath ==
    /\ [](assoc.closes <= 1)
    /\ [][(send_back_wake /\ ~assoc.run_guard) => assoc'.pc = "break"]_vars
    /\ [][send_back_exit => (~assoc'.in_sockmap /\ assoc'.closes = 1)]_vars
    /\ (assoc.pc = "select" /\ ~assoc.run_guard)
            ~> (assoc.pc = "closed" /\ ~assoc.in_sockmap /\ assoc.closes = 1)

\* The task has ended after a tick that found the run guard dropped.
C24_Witness ==
    /\ ~assoc.run_guard /\ assoc.pc = "closed" /\ assoc.tick = TickMs
    /\ ~assoc.in_sockmap /\ assoc.closes = 1

\* ---- C25 ----

\* The packets of the group with 0-based range <<start, end>>.
GroupPackets(r, g) == SubSeq(r.data, g[1] + 1, g[2])

\* C25: when group_by_addr returns, the groups are contiguous non-empty ranges that cover
\* the n packets (every packet is in exactly one group and none is lost or duplicated),
\* the packets of a group have one source address, no two groups have the same address,
\* and the packets of a group are in the order in which they were received.
C25_GroupsAreStablePartition ==
    registry.pc = "done" =>
        LET r == registry
            n == Len(r.data)
            m == Len(r.groups) IN
        /\ m >= 1 /\ r.groups[1][1] = 0 /\ r.groups[m][2] = n
        /\ \A k \in 1..m : r.groups[k][1] < r.groups[k][2]
        /\ \A k \in 1..(m - 1) : r.groups[k][2] = r.groups[k + 1][1]
        /\ {r.data[k].seq : k \in 1..n} = 1..n
        /\ \A k \in 1..m :
              LET pkts == GroupPackets(r, r.groups[k]) IN
              /\ \A x, y \in 1..Len(pkts) : pkts[x].addr = pkts[y].addr
              /\ \A x, y \in 1..Len(pkts) : x < y => pkts[x].seq < pkts[y].seq
        /\ \A k, l \in 1..m :
              k # l => GroupPackets(r, r.groups[k])[1].addr # GroupPackets(r, r.groups[l])[1].addr

\* ---- C26 ----

\* The snapshot the handler took says the peer is in backoff.
InBackoff(snap) == snap # <<>> /\ snap[1].should_skip

\* C26: the route response of a failover instance with a health object names as
\* preferred_backend the first backend, primary first, whose snapshot is not in backoff, or
\* the primary when all are in backoff; the state of each backend is backoff if
\* should_skip, else healthy if ok_recent, else unhealthy if fail_count > 0, else unknown.
C26_RoutePrefersFirstNotInBackoff ==
    route.pc = "done" =>
        LET n == route.addrs
            free == {i \in 0 .. n - 1 : ~InBackoff(route.snaps[i + 1])} IN
        /\ Len(route.backends) = n
        /\ route.preferred_backend =
              (IF free = {} THEN <<0>> ELSE <<CHOOSE i \in free : \A j \in free : i <= j>>)
        /\ \A i \in 0 .. n - 1 :
              LET snap == route.snaps[i + 1]
                  state == route.backends[i + 1].state IN
              /\ InBackoff(snap) => state = "backoff"
              /\ (~InBackoff(snap) /\ snap # <<>> /\ snap[1].ok_recent) => state = "healthy"
              /\ (~InBackoff(snap) /\ snap # <<>> /\ ~snap[1].ok_recent
                    /\ snap[1].fail_count > 0) => state = "unhealthy"
              /\ (~InBackoff(snap) /\ (snap = <<>> \/ (~snap[1].ok_recent
                                                      /\ snap[1].fail_count = 0)))
                    => state = "unknown"

\* The primary is in backoff and the response prefers the first backup, which has failed
\* before and is out of its backoff.
C26_Witness ==
    /\ route.pc = "done" /\ route.preferred_backend = <<1>>
    /\ route.backends[1].state = "backoff" /\ route.backends[2].state = "unhealthy"

\* ---- C27 ----

\* C27: a failover endpoint that has been built has a balancer of total
\* 1 + |extra_remotes| (explicit weights of another count or with a backup above the primary
\* are not built), its candidates are the tokens 0 .. |extra_remotes| in order, and every
\* candidate is a slot of its FailoverHealth, which has 1 + |extra_remotes| peers.
C27_FailoverTotalMatchesRemotes ==
    /\ (build.pc \in {"built", "running"} /\ build.balancer.strategy = "failover")
            => /\ build.balancer.total = 1 + build.conf.extra_remotes
               /\ build.conf.weights # <<>>
                     => /\ Len(build.conf.weights) = 1 + build.conf.extra_remotes
                        /\ \A k \in 1 .. Len(build.conf.weights) :
                              build.conf.weights[k] <= build.conf.weights[1]
    /\ (build.pc = "running" /\ build.balancer.strategy = "failover")
            => /\ build.tokens = [k \in 1 .. 1 + build.conf.extra_remotes |-> k - 1]
               /\ build.peer_count = <<1 + build.conf.extra_remotes>>
               /\ \A k \in 1 .. Len(build.tokens) :
                     build.tokens[k] \in 0 .. build.peer_count[1] - 1

\* A failover endpoint with two extra remotes and explicit weights runs with three
\* candidates.
C27_Witness ==
    /\ build.pc = "running" /\ build.balancer.strategy = "failover"
    /\ build.conf.extra_remotes = 2 /\ build.conf.weights # <<>>
    /\ build.tokens = <<0, 1, 2>>

\* ---- C28 ----

\* The rule of the API for an id: not empty, at most 256 characters, no whitespace,
\* no '/' and no '\'.
IdRuleHolds(id) ==
    /\ id # <<>> /\ chars_count(id) > 0
    /\ chars_count(id) <= MaxIdLen
    /\ ~contains(id, {ch \in IdChars : is_whitespace(ch)})
    /\ ~contains(id, {"/", "\\"})

\* C28: every id that POST /instances accepts and stores as a key of the registry obeys
\* the rule, and a request whose id does not obey it is answered 400 invalid_id (400
\* invalid_config when its config does not build either, which is looked at first) and
\* leaves the registry as it was.
C28_StoredIdsObeyRule ==
    [][create_instance_request =>
          LET id == or(idreq.req.id, idreq.req.external_id) IN
          /\ \A key \in idreq'.keys \ idreq.keys : IdRuleHolds(key)
          /\ (idreq'.code \in {"200", "201"} /\ id # <<>>) => IdRuleHolds(id[1])
          /\ (id # <<>> /\ ~IdRuleHolds(id[1]))
                => /\ idreq'.code = "400" /\ idreq'.keys = idreq.keys
                   /\ idreq.req.config_ok => idreq'.error = "invalid_id"]_vars

\* ---- C29 ----

\* C29: FailoverOpts::sanitize is idempotent: sanitizing a record that has been sanitized
\* leaves every one of its eight fields as it is.
C29_SanitizeIsIdempotent ==
    [][(sanitize_call /\ fopts.calls >= 1) => fopts'.opts = fopts.opts]_vars

\* A record has been sanitized twice, and the first call changed all eight fields: the
\* six ranged fields were above their ranges, the window above its cap, the sleep above.
C29_Witness ==
    /\ fopts.calls = 2
    /\ fopts.opts = [probe_interval_ms |-> 60000, probe_timeout_ms |-> 10000,
                     failfast_timeout_ms |-> 10000, ok_ttl_ms |-> 120000,
                     backoff_base_ms |-> 10000, backoff_max_ms |-> 600000,
                     retry_window_ms |-> 600000, retry_sleep_ms |-> 10000]

\* ---- C30 ----

\* The for loop of connect_and_relay starts a connect to its next candidate.
AttemptStarts == dial'.pc = "connecting" /\ dial'.tried # dial.tried

\* C30 (as stated): in a failover endpoint with failfast_timeout_ms > 0 the first connect
\* to a peer, no connect to which has been marked yet, is not wrapped in the fail-fast
\* timeout, and a connect that is wrapped goes to a peer that is not recent-ok.
C30_FirstConnectWithoutFailfast ==
    [][(AttemptStarts /\ is_failover(dial') /\ dial'.conf.failfast_timeout_ms > 0)
          => /\ hist'[dial'.cur].kind = "none" => ~dial'.failfast
             /\ dial'.failfast => ~is_recent_ok(health', dial'.cur)]_vars

\* C30 (amended): in a failover endpoint with failfast_timeout_ms > 0 a connect is wrapped
\* in the fail-fast timeout exactly when its peer is not recent-ok at that moment; the
\* first connect to a peer, which has no success yet, is therefore wrapped.  Without
\* failover or with failfast_timeout_ms = 0 no connect is wrapped.
C30_FailfastExactlyWhenNotRecentOk ==
    [][AttemptStarts
          => /\ dial'.failfast <=> /\ is_failover(dial') /\ dial'.conf.failfast_timeout_ms > 0
                                   /\ ~is_recent_ok(health', dial'.cur)
             /\ (/\ is_failover(dial') /\ dial'.conf.failfast_timeout_ms > 0
                 /\ hist'[dial'.cur].kind = "none") => dial'.failfast]_vars

\* The first connect to a peer of a failover endpoint with a fail-fast timeout is under
\* way, wrapped in that timeout.
C30_Witness ==
    /\ dial.pc = "connecting" /\ is_failover(dial) /\ dial.conf.failfast_timeout_ms > 0
    /\ hist[dial.cur].kind = "none" /\ health.peers[dial.cur].last_ok_ms = U64(0)
    /\ dial.failfast

\* ---- C31 ----

\* C31: when the connect to candidate idx succeeds, the task marks idx ok (in a failover
\* endpoint, which has a health object), starts no further connect and reports idx, and
\* nothing else, through on_connection_backend; every candidate whose connect failed
\* earlier in the pass has been marked failed; a task that ends without a connection has
\* reported no backend.
C31_SuccessMarksOkAndReportsBackend ==
    /\ [][connect_done("ok")
            => /\ is_failover(dial) => health' = mark_ok(health, dial.cur)
               /\ dial'.pc = "done" /\ dial'.tried = dial.tried
               /\ dial'.backend = <<dial.cur>>]_vars
    /\ [](dial.pc = "done" /\ dial.result # "relay" => dial.backend = <<>>)
    /\ [](dial.pc # "done" => dial.backend = <<>>)
    /\ []((is_failover(dial) /\ dial.pc \in {"connecting", "peek", "done"})
            => \A k \in 1 .. Len(dial.attempted) :
                  (dial.attempted[k] # dial.cur \/ dial.result \notin {"none", "relay"})
                     => /\ hist[dial.attempted[k]].kind = "fail"
                        /\ health.peers[dial.attempted[k]].fail_count > 0)

\* The connect to the second candidate succeeded after the connect to the first one
\* failed: peer 1 is reported, peer 0 is marked failed.
C31_Witness ==
    /\ dial.pc = "done" /\ dial.result = "relay" /\ is_failover(dial)
    /\ dial.attempted = <<0, 1>> /\ dial.backend = <<1>>
    /\ hist[0].kind = "fail" /\ hist[1].kind = "ok"

\* ---- C32 ----

\* A pass of the connect loop ends without a connection.
PassEndsUnconnected == ~dial.pass_done /\ dial'.pass_done /\ dial'.remote = <<>>

\* C32: with the failover strategy and retry_window_ms > 0, a pass that ends without a
\* connection when retry_window_ms or more have elapsed since the task began is the last
\* one, and the task returns the last connect error; when every connect returns and time
\* advances, the connect phase ends.
C32_RetryEndsWithTheWindow ==
    /\ [][(PassEndsUnconnected /\ is_failover(dial) /\ dial.conf.retry_window_ms > 0
            /\ health'.now - dial.start >= dial.conf.retry_window_ms)
           => /\ dial'.pc = "done" /\ dial'.result = dial'.last_err
              /\ dial'.result \notin {"none", "relay"}]_vars
    /\ [][(dial.pc = "done" /\ dial'.dials = dial.dials) => dial'.tried = dial.tried]_vars
    /\ (dial.pc = "top" /\ is_failover(dial) /\ dial.conf.retry_window_ms > 0)
            ~> dial.pc = "done"

\* The task retried, and gave up with the last connect error at the end of the pass that
\* found the retry window over.
C32_Witness ==
    /\ dial.pc = "done" /\ is_failover(dial) /\ dial.conf.retry_window_ms > 0
    /\ dial.passes >= 2 /\ dial.result = "ConnectionRefused"
    /\ health.now - dial.start >= dial.conf.retry_window_ms

\* ---- C33 ----

\* C33: after a successful bind the accept loop ends only by an accept error other than
\* ConnectionAborted or by the abort of the task; a ConnectionAborted accept error (the
\* loop continues, nothing changes) and a failure while one accepted connection is
\* prepared or served leave the listener listening.
C33_AcceptLoopEndsOnlyOnAcceptError ==
    [][(lis = "listening" /\ lis' # "listening") => (accept_error \/ abort_listener)]_vars

\* ---- C34 ----

\* C34: the probing task exists only with the failover strategy and probe_interval_ms > 0;
\* once the endpoint task has ended, the probing task begins no further round (it marks
\* no peer but in the round that was in flight) and it exits.
C34_ProbeStopsWithTheEndpoint ==
    /\ [](probe.pc # "none" => (probe.strategy = "failover" /\ probe.probe_interval_ms > 0))
    /\ [][(\E idx \in 0 .. HealthPeers - 1, ok \in BOOLEAN : probe_one_done(idx, ok))
            => ~probe.after_stop]_vars
    /\ (probe.pc # "none" /\ probe_stop_ready) ~> probe.pc = "exited"

\* ---- C35 ----

\* C35: the observer callbacks of a TCP connection come in the order on_connection_open,
\* on_connection_backend (at most once, and only by a successful connect), every
\* on_connection_bytes, on_connection_end: bytes are reported only between the backend
\* report and the end, and nothing is reported before the open or after the end.
C35_CallbacksInOrder ==
    [][\A c \in ConnIds :
          /\ calls'[c].open # calls[c].open => calls[c] = NoCalls
          /\ calls'[c].backend # calls[c].backend
                => /\ connect_ok(c)
                   /\ calls[c] = [NoCalls EXCEPT !.open = 1]
          /\ (calls'[c].inbound # calls[c].inbound \/ calls'[c].outbound # calls[c].outbound)
                => /\ calls[c].open = 1 /\ calls[c].backend = 1 /\ calls[c].end = 0
          /\ calls'[c].end # calls[c].end
                => /\ calls[c].open = 1 /\ calls[c].end = 0
                   /\ calls'[c].backend = calls[c].backend]_vars

\* A connection that went through all four callbacks, with bytes in both directions.
C35_Witness ==
    \E c \in ConnIds :
        /\ calls[c].open = 1 /\ calls[c].backend = 1 /\ calls[c].end = 1
        /\ calls[c].inbound > 0 /\ calls[c].outbound > 0 /\ conn[c].pc = "done"

\* ---- C36 ----

\* No handler or starter is between its sections for the id, and no watcher of the id has
\* its task ended and its own step still to take.
Quiescent(i) ==
    /\ \A op \in ops : op.id # i
    /\ \A t \in TaskIds :
          tasks[t].id = i => ~(tasks[t].watcher = "armed" /\ tasks[t].state = "ended")

\* The endpoint tasks of the id that have not ended and were not aborted.
LiveTasks(i) == {t \in TaskIds : tasks[t].id = i /\ tasks[t].state \in {"starting", "running"}}

\* C36: whenever no lifecycle operation, starter or crash watcher of an instance is in
\* progress, every endpoint task of the instance that is still running is the task of
\* the record's tcp_abort or udp_abort, the record is Running and the task was spawned
\* for its generation: no task outlives a delete, a stop or a failure, or its generation.
C36_RunningTasksAreReferenced ==
    \A i \in Ids :
        Quiescent(i) =>
            \A t \in LiveTasks(i) :
                /\ t \in {instances[i].tcp_abort, instances[i].udp_abort}
                /\ instances[i].status = "Running"
                /\ tasks[t].generation = instances[i].generation

\* ---- C37 ----

\* The handles of the record whose task was not aborted.
UnabortedHandles(data) ==
    {h \in {data.tcp_abort, data.udp_abort} \ {NoHandle} : tasks[h].state # "aborted"}

\* C37: whenever no lifecycle operation, starter or crash watcher of an instance is in
\* progress, a record that is Running holds at least one handle whose task has not been
\* aborted.
C37_RunningHoldsAnUnabortedTask ==
    \A i \in Ids :
        (Quiescent(i) /\ instances[i].status = "Running") =>
            UnabortedHandles(instances[i]) # {}

\* ---- C38 ----

\* The step in which the peek of the local-cancel race completes.
PeekCompletes == dial.pc = "peek" /\ dial' # dial

\* C38: the step that ends the peek of the local-cancel race, and so the one that drops
\* the connect with BrokenPipe because the client has closed, leaves the health of every
\* peer unchanged: mark_fail is called only for a connect that itself failed or timed out.
C38_CancelledConnectLeavesHealth ==
    [][PeekCompletes => health' = health]_vars

\* ---- C39 ----

\* The return-path tasks of the current run that are in their loop for the source.
CurrentTasks(s, src) ==
    {u \in s.tasks : u.run = s.run /\ s.alive /\ u.src = src /\ u.pc = "select"}

\* C39: the on_session_close of a return-path task of an earlier run never removes the
\* udp_sessions entry of a source for which a return-path task of the current run is in
\* its loop.
C39_EarlierRunCloseKeepsEntry ==
    [][\A t \in sess.tasks :
          (t.run # sess.run /\ t \notin sess'.tasks /\ CurrentTasks(sess, t.src) # {}
              /\ t.src \in sess.udp_sessions)
          => t.src \in sess'.udp_sessions]_vars

\* ---- C40 ----

\* C40: whatever the interleaving of the atomic stores of the mark_ok and mark_fail calls of
\* the connection tasks and the probing task, the snapshot of a peer never shows the peer
\* both in backoff (should_skip) and recently ok (ok_recent).
C40_SnapshotNeverSkipAndRecentOk ==
    \A idx \in Peers(health) :
        LET snap == peer_snapshot(health, idx)[1]
        IN  ~(snap.should_skip /\ snap.ok_recent)

====
